---- MODULE Spec2Model ----
(***************************************************************************)
(* Event ingestion, idempotency and delivery pipeline of the AI            *)
(* receptionist backend: the inbound webhook routes (routes/webhooks.ts),  *)
(* the call state reducer (services/call.ts), the outbound delivery        *)
(* engine (services/webhook.ts) and the BullMQ workers (jobs/workers.ts).  *)
(***************************************************************************)
EXTENDS Integers, Sequences, FiniteSets, Bags, TLC

(***************************************************************************)
(* Bounds of the model.                                                    *)
(***************************************************************************)
\* largest value Date.now() takes in a run (milliseconds, abstracted)
MaxTime == 3
\* inbound requests that get past verification in a run; also the number of
\* request contexts that can be in flight at once
MaxReq == 2

\* JavaScript undefined / null
None == "none"

(***************************************************************************)
(* Tenant table.  Tenants are read-only for the pipeline.                  *)
(***************************************************************************)
TenantIds == {"t1", "t2", "t3"}

\* Phone numbers are strings; a string is a sequence of characters.
PhoneOfT1 == <<"+", "1", "5">>
PhoneOfT1Dashed == <<"+", "1", "-", "5">>
PhoneOfT3 == <<"+", "1", "7">>
PhoneUnowned == <<"+", "1", "9">>

\* t1: active, every credential configured, owns a number, has an outbound URL
\* t2: active, no credential, no number, no outbound URL
\* t3: suspended
Tenant(t) ==
  CASE t = "t1" -> [id |-> "t1", slug |-> "s1", status |-> "ACTIVE",
                    authToken |-> "tok1", phoneNumbers |-> {PhoneOfT1Dashed},
                    webhookSecret |-> "sec1", apiKey |-> "key1",
                    outboundWebhookUrl |-> "url1",
                    outboundWebhookSecret |-> "out1"]
    [] t = "t2" -> [id |-> "t2", slug |-> "s2", status |-> "ACTIVE",
                    authToken |-> None, phoneNumbers |-> {},
                    webhookSecret |-> None, apiKey |-> None,
                    outboundWebhookUrl |-> None,
                    outboundWebhookSecret |-> None]
    [] OTHER    -> [id |-> "t3", slug |-> "s3", status |-> "SUSPENDED",
                    authToken |-> "tok3", phoneNumbers |-> {PhoneOfT3},
                    webhookSecret |-> "sec3", apiKey |-> "key3",
                    outboundWebhookUrl |-> "url3",
                    outboundWebhookSecret |-> None]

\* config.TWILIO_AUTH_TOKEN, config.VAPI_WEBHOOK_SECRET, config.VAPI_API_KEY:
\* optional environment variables, unset here
ConfigTwilioAuthToken == None
ConfigVapiWebhookSecret == None
ConfigVapiApiKey == None

Slugs == {"s1", "s2", "s3", "sx"}

\* prisma.tenant.findUnique({ where: { slug } }): the whole row, or None
FindTenantBySlug(slug) ==
  IF \E t \in TenantIds : Tenant(t).slug = slug
  THEN Tenant(CHOOSE t \in TenantIds : Tenant(t).slug = slug)
  ELSE [id |-> None, slug |-> None, status |-> None, authToken |-> None,
        phoneNumbers |-> {}, webhookSecret |-> None, apiKey |-> None,
        outboundWebhookUrl |-> None, outboundWebhookSecret |-> None]

\* phoneNumber.replace(/[^\d+]/g, '')
IsDigitOrPlus(c) == c \in {"+", "0", "1", "2", "3", "4", "5", "6", "7", "8", "9"}
NormalizePhone(n) == SelectSeq(n, IsDigitOrPlus)

\* findTenantByPhoneNumber: only ACTIVE tenants are scanned, and the select
\* clause returns id, slug, twilioConfig, outboundWebhookUrl and
\* outboundWebhookSecret: the returned object has no status field.
FindTenantByPhoneNumber(phoneNumber) ==
  LET normalizedNumber == NormalizePhone(phoneNumber)
      owners == {t \in TenantIds :
                   /\ Tenant(t).status = "ACTIVE"
                   /\ \E n \in Tenant(t).phoneNumbers :
                        NormalizePhone(n) = normalizedNumber}
  IN IF owners = {}
     THEN FindTenantBySlug("no such slug")
     ELSE [Tenant(CHOOSE t \in owners : TRUE) EXCEPT
             !.status = None, !.webhookSecret = None, !.apiKey = None]

(***************************************************************************)
(* Signature verification (routes/webhooks.ts).                            *)
(* An HMAC is modelled by the secret it was computed with and the byte     *)
(* length of the decoded header value; an absent header is NoSig.          *)
(***************************************************************************)
\* bytes of an HMAC-SHA1 digest (Twilio) and of an HMAC-SHA256 digest (Vapi)
Sha1Bytes == 20
Sha256Bytes == 32
\* a header value that decodes to fewer bytes than any digest
ShortBytes == 3

NoSig == [secret |-> None, len |-> 0]
\* header values a request may carry: none, the HMAC under the secret `good`,
\* an HMAC under another secret, and a value of another length
Signatures(good, digestLen) ==
  {NoSig, [secret |-> good, len |-> digestLen],
   [secret |-> "bad", len |-> digestLen], [secret |-> "bad", len |-> ShortBytes]}

\* crypto.timingSafeEqual(a, b): a RangeError when the byte lengths differ
TimingSafeEqual(aSecret, aLen, bSecret, bLen) ==
  IF aLen # bLen THEN "throw"
  ELSE IF aSecret = bSecret THEN "true" ELSE "false"

VerifyTwilioSignature(signature, authToken) ==
  TimingSafeEqual(signature.secret, signature.len, authToken, Sha1Bytes)

VerifyVapiSignature(signature, secret) ==
  TimingSafeEqual(signature.secret, signature.len, secret, Sha256Bytes)

(***************************************************************************)
(* Inbound payloads.                                                       *)
(***************************************************************************)
TwilioStatuses == {"ringing", "completed"}
TwilioCallSids == {"CA1"}
\* message.type and call.status of a Vapi message
VapiMessages == {<<"status-update", "ringing">>,
                 <<"status-update", "in-progress">>,
                 <<"call-ended", "ended">>}
VapiCallIds == {"v1"}
BearerTokens == {None, "key1", "bad"}

\* `${x}` in a template literal
Str(x) == IF x = None THEN "undefined" ELSE x

\* normalizeTwilioEvent: eventId = `twilio:${CallSid}:${Date.now()}`
TwilioEventId(callSid, ts) ==
  [p |-> "twilio", id |-> Str(callSid), type |-> "", ts |-> ts]
\* normalizeVapiEvent: eventId = `vapi:${call.id}:${message.type}:${Date.now()}`
VapiEventId(callId, messageType, ts) ==
  [p |-> "vapi", id |-> Str(callId), type |-> Str(messageType), ts |-> ts]
NoEventId == [p |-> None, id |-> None, type |-> None, ts |-> 0 - 1]

\* idempotencyKey = `twilio:${CallSid}:${CallStatus}`
TwilioIdempotencyKey(callSid, callStatus) ==
  [p |-> "twilio", id |-> Str(callSid), kind |-> Str(callStatus)]
\* idempotencyKey = `vapi:${callId}:${messageType}`
VapiIdempotencyKey(callId, messageType) ==
  [p |-> "vapi", id |-> Str(callId), kind |-> Str(messageType)]
NoKey == [p |-> None, id |-> None, kind |-> None]

\* The fields of a stored payload that the call reducer reads.  callId is
\* _raw.CallSid (Twilio) or _raw.message.call.id (Vapi), status the provider's
\* status string, duration a number of seconds (NoDuration: absent), outcome
\* message.analysis.outcome, customerName analysis.structuredData.customerName,
\* lookupId the value of _raw.callSid || _raw.id.
NoDuration == 0 - 1
Payload(callId, status, duration, recordingUrl, transcript, outcome, customerName, lookupId) ==
  [callId |-> callId, status |-> status, duration |-> duration,
   recordingUrl |-> recordingUrl, transcript |-> transcript,
   outcome |-> outcome, customerName |-> customerName, lookupId |-> lookupId]
NoPayload == Payload(None, None, NoDuration, None, None, None, None, None)

\* No row of table calls; startedAt is a time in ms, NoTime when not yet set
NoTime == 0 - 1
NoCall == [id |-> 0, tenantId |-> None, externalCallId |-> None,
           provider |-> None, status |-> None, durationSeconds |-> NoDuration,
           recordingUrl |-> None, transcript |-> None, outcomeType |-> None,
           customerName |-> None, aiHandled |-> None, startedAt |-> NoTime]

\* The body Twilio posts for a status: a completed call reports its duration
\* and recording.  The body has the field CallSid and no field callSid or id.
TwilioBody(callSid, callStatus) ==
  IF callStatus = "completed"
  THEN Payload(callSid, callStatus, 120, "rec", None, None, None, None)
  ELSE Payload(callSid, callStatus, NoDuration, None, None, None, None, None)
\* The body Vapi posts: a call-ended message carries the artifact and the
\* analysis.  The call id is message.call.id; the body has no top-level id.
VapiBody(callId, message) ==
  IF message[1] = "call-ended"
  THEN Payload(callId, message[2], 45, "rec", "txt", "booked", "Jean", None)
  ELSE Payload(callId, message[2], NoDuration, None, None, None, None, None)

(***************************************************************************)
(* State.                                                                  *)
(***************************************************************************)
VARIABLES
  isProduction,   \* config.isProduction
  now,            \* Date.now()
  webhookEvents,  \* table webhook_events
  callQueue,      \* call-processing queue: jobs waiting
  deliveryQueue,  \* webhook-delivery queue: jobs waiting
  req,            \* request contexts of the webhook routes
  accepted,       \* requests that got past verification so far
  lastResp,       \* the response most recently sent by a webhook route
  calls,          \* table calls
  redisKeys,      \* idempotency records of createCall in Redis
  metricsQueue,   \* metrics-aggregation queue: jobs waiting
  lastProcessed,  \* the call-processing job most recently finished
  webhookLogs,    \* table webhook_logs, in insertion order
  deliveryTasks,  \* deliveries in progress in the delivery worker
  deadLetterQueue,\* dead-letter queue
  replays,        \* manual replay requests served so far
  signing,        \* a signature generated and verified by services/webhook.ts
  lastReplay,     \* the outcome of the manual replay most recently requested
  dailyMetrics,   \* table daily_metrics
  metricsTasks,   \* aggregations in progress: the rollup read, not yet stored
  shutdown,       \* the shutdown handlers, the workers and the connections
  lastStatus,     \* the response of GET /webhooks/status most recently sent
  callTasks,      \* call-processing tasks in progress, with what they read
  lock            \* the Redis lock key and the callers of acquireLock

ingestVars == <<isProduction, now, webhookEvents, callQueue, deliveryQueue,
                req, accepted, lastResp>>

\* what the workers and the replay operation own
workerVars == <<calls, redisKeys, metricsQueue, lastProcessed, webhookLogs,
                deliveryTasks, deadLetterQueue, replays>>

\* what the other services own
serviceVars == <<signing, lastReplay, dailyMetrics, metricsTasks, shutdown,
                 lastStatus, callTasks, lock>>

vars == <<isProduction, now, webhookEvents, callQueue, deliveryQueue,
          req, accepted, lastResp, calls, redisKeys, metricsQueue,
          lastProcessed, webhookLogs, deliveryTasks, deadLetterQueue, replays,
          signing,
          lastReplay,
          dailyMetrics,
          metricsTasks,
          shutdown,
          lastStatus,
          callTasks,
          lock>>

ReqIds == 1..MaxReq
\* rows: number of rows this request has inserted;
\* enq: number of jobs this request has enqueued
IdleReq == [pc |-> "idle", provider |-> None, tenantId |-> None,
            addressed |-> None,
            payload |-> NoPayload,
            outboundWebhookUrl |-> None, idempotencyKey |-> NoKey,
            eventId |-> NoEventId, signature |-> NoSig, sigVerdict |-> None,
            rows |-> 0, enq |-> 0]

\* A response, with the tenant, key and signature header of its request
NoResp == [code |-> None, http |-> 0, provider |-> None, addressed |-> None,
           eventId |-> NoEventId, tenantId |-> None,
           idempotencyKey |-> NoKey, signature |-> NoSig,
           sigVerdict |-> None, rows |-> 0, enq |-> 0]

(***************************************************************************)
(* errorHandler (middleware/errorHandler.ts): the response for an error    *)
(* passed to next(error).                                                  *)
(***************************************************************************)
ErrorCode(err) ==
  CASE err = "P2002" -> "DUPLICATE_ENTRY"
    [] err \in {"RangeError", "QueueError", "Error"} -> "INTERNAL_ERROR"
    [] OTHER -> err
ErrorHttp(err) ==
  CASE err = "TENANT_NOT_FOUND" -> 404
    [] err = "TENANT_INACTIVE" -> 403
    [] err \in {"INVALID_SIGNATURE", "INVALID_TOKEN"} -> 401
    [] err = "P2002" -> 409
    [] OTHER -> 500

(***************************************************************************)
(* POST /webhooks/twilio/:tenantSlug and POST /webhooks/vapi/:tenantSlug   *)
(***************************************************************************)
\* What the requests of a run may carry
AnyRequest ==
  [slugs |-> Slugs, tos |-> {<<>>, PhoneOfT1, PhoneOfT3, PhoneUnowned},
   twilioSigs |-> Signatures("tok1", Sha1Bytes),
   vapiSigs |-> Signatures("sec1", Sha256Bytes),
   bearerTokens |-> BearerTokens, limit |-> MaxTime]
\* requests for the active tenants, by slug, with no credential headers
PlainRequest ==
  [slugs |-> {"s1", "s2"}, tos |-> {<<>>}, twilioSigs |-> {NoSig},
   vapiSigs |-> {NoSig}, bearerTokens |-> {None}, limit |-> MaxReq]

\* The handler up to its idempotency lookup: tenant resolution, the status
\* check and signature verification.
TwilioPrefix(slug, to, signature) ==
  LET byPhone == IF to # <<>> THEN FindTenantByPhoneNumber(to)
                 ELSE FindTenantBySlug("no such slug")
      tenant == IF byPhone.id # None THEN byPhone ELSE FindTenantBySlug(slug)
      authToken == IF tenant.authToken # None THEN tenant.authToken
                   ELSE ConfigTwilioAuthToken
      verdict == IF isProduction /\ authToken # None /\ signature # NoSig
                 THEN VerifyTwilioSignature(signature, authToken)
                 ELSE "skipped"
  IN [tenant |-> tenant,
      verdict |-> IF tenant.id = None \/ tenant.status # "ACTIVE"
                  THEN None ELSE verdict,
      error |-> IF tenant.id = None THEN "TENANT_NOT_FOUND"
                ELSE IF tenant.status # "ACTIVE" THEN "TENANT_INACTIVE"
                ELSE IF verdict = "throw" THEN "RangeError"
                ELSE IF verdict = "false" THEN "INVALID_SIGNATURE"
                ELSE None]

\* VapiPrefix without the check of tenant.status
VapiPrefixNoStatusCheck(slug, bearerToken, signature) ==
  LET tenant == FindTenantBySlug(slug)
      verdict == IF isProduction /\ tenant.webhookSecret # None
                    /\ signature # NoSig
                 THEN VerifyVapiSignature(signature, tenant.webhookSecret)
                 ELSE "skipped"
  IN [tenant |-> tenant,
      verdict |-> IF tenant.id = None THEN None ELSE verdict,
      error |-> IF tenant.id = None THEN "TENANT_NOT_FOUND"
                ELSE IF verdict = "throw" THEN "RangeError"
                ELSE IF verdict = "false" THEN "INVALID_SIGNATURE"
                ELSE None]

VapiPrefix(slug, bearerToken, signature) ==
  LET tenant == FindTenantBySlug(slug)
      webhookSecret == IF tenant.webhookSecret # None THEN tenant.webhookSecret
                       ELSE ConfigVapiWebhookSecret
      apiKey == IF tenant.apiKey # None THEN tenant.apiKey ELSE ConfigVapiApiKey
      badToken == /\ isProduction
                  /\ apiKey # None /\ bearerToken # None
                  /\ bearerToken # apiKey
      verdict == IF isProduction /\ webhookSecret # None /\ signature # NoSig
                 THEN VerifyVapiSignature(signature, webhookSecret)
                 ELSE "skipped"
  IN [tenant |-> tenant,
      verdict |-> IF tenant.id = None \/ tenant.status # "ACTIVE" \/ badToken
                  THEN None ELSE verdict,
      error |-> IF tenant.id = None THEN "TENANT_NOT_FOUND"
                ELSE IF tenant.status # "ACTIVE" THEN "TENANT_INACTIVE"
                ELSE IF badToken THEN "INVALID_TOKEN"
                ELSE IF verdict = "throw" THEN "RangeError"
                ELSE IF verdict = "false" THEN "INVALID_SIGNATURE"
                ELSE None]

\* The tenant a request is addressed to: the ACTIVE tenant that owns the To
\* number (numbers compared without the characters other than digits and
\* '+'), and otherwise the tenant of the URL slug; None when there is none.
\* The responses record it next to the tenant the handler resolved.
AddressedTenant(slug, to) ==
  LET owners == {t \in TenantIds :
                   /\ Tenant(t).status = "ACTIVE"
                   /\ to # <<>>
                   /\ \E n \in Tenant(t).phoneNumbers :
                        NormalizePhone(n) = NormalizePhone(to)}
      named == {t \in TenantIds : Tenant(t).slug = slug}
  IN IF owners # {} THEN CHOOSE t \in owners : TRUE
     ELSE IF named # {} THEN CHOOSE t \in named : TRUE
     ELSE None

\* next(error): the request ends with the error handler's response
Fail(r, err) ==
  /\ lastResp' = [code |-> ErrorCode(err), http |-> ErrorHttp(err),
                  provider |-> req[r].provider,
                  addressed |-> req[r].addressed,
                  eventId |-> NoEventId, tenantId |-> req[r].tenantId,
                  idempotencyKey |-> req[r].idempotencyKey,
                  signature |-> req[r].signature,
                  sigVerdict |-> req[r].sigVerdict,
                  rows |-> req[r].rows, enq |-> req[r].enq]
  /\ req' = [req EXCEPT ![r] = IdleReq]

\* A request rejected before its idempotency lookup
Reject(r, provider, d, addressed, key, signature) ==
  /\ lastResp' = [code |-> ErrorCode(d.error), http |-> ErrorHttp(d.error),
                  provider |-> provider, addressed |-> addressed,
                  eventId |-> NoEventId, tenantId |-> d.tenant.id,
                  idempotencyKey |-> key, signature |-> signature,
                  sigVerdict |-> d.verdict, rows |-> 0, enq |-> 0]
  /\ UNCHANGED <<req, accepted>>

Admit(r, provider, d, addressed, key, signature, eventId, payload, limit) ==
  /\ accepted < limit
  /\ accepted' = accepted + 1
  /\ req' = [req EXCEPT ![r] =
               [pc |-> "lookup", provider |-> provider, payload |-> payload,
                addressed |-> addressed,
                tenantId |-> d.tenant.id,
                outboundWebhookUrl |-> d.tenant.outboundWebhookUrl,
                idempotencyKey |-> key, eventId |-> eventId,
                signature |-> signature, sigVerdict |-> d.verdict,
                rows |-> 0, enq |-> 0]]
  /\ UNCHANGED lastResp

\* a handler whose idempotency key changes with the time of receipt
ReceiveTwilioAtTimedKey(r, ts, in) ==
  /\ req[r].pc = "idle"
  /\ \E slug \in in.slugs, to \in in.tos, callSid \in TwilioCallSids,
        callStatus \in TwilioStatuses, signature \in in.twilioSigs :
       LET d == TwilioPrefix(slug, to, signature)
       IN IF d.error # None
          THEN Reject(r, "TWILIO", d, AddressedTenant(slug, to),
                      [TwilioIdempotencyKey(callSid, callStatus)
                         EXCEPT !.kind = IF ts > 1 THEN "late" ELSE @],
                      signature)
          ELSE Admit(r, "TWILIO", d, AddressedTenant(slug, to),
                     [TwilioIdempotencyKey(callSid, callStatus)
                         EXCEPT !.kind = IF ts > 1 THEN "late" ELSE @],
                     signature,
                     TwilioEventId(callSid, ts),
                     TwilioBody(callSid, callStatus), in.limit)
  /\ UNCHANGED <<isProduction, webhookEvents, callQueue, deliveryQueue,
                 workerVars>>
  /\ UNCHANGED serviceVars

\* The Twilio handler from its start to the await of findFirst; ts is the
\* value Date.now() returns in normalizeTwilioEvent.
ReceiveTwilioAt(r, ts, in) ==
  /\ req[r].pc = "idle"
  /\ \E slug \in in.slugs, to \in in.tos, callSid \in TwilioCallSids,
        callStatus \in TwilioStatuses, signature \in in.twilioSigs :
       LET d == TwilioPrefix(slug, to, signature)
       IN IF d.error # None
          THEN Reject(r, "TWILIO", d, AddressedTenant(slug, to),
                      TwilioIdempotencyKey(callSid, callStatus), signature)
          ELSE Admit(r, "TWILIO", d, AddressedTenant(slug, to),
                     TwilioIdempotencyKey(callSid, callStatus), signature,
                     TwilioEventId(callSid, ts),
                     TwilioBody(callSid, callStatus), in.limit)
  /\ UNCHANGED <<isProduction, webhookEvents, callQueue, deliveryQueue,
                 workerVars>>
  /\ UNCHANGED serviceVars

ReceiveVapiAt(r, ts, in) ==
  /\ req[r].pc = "idle"
  /\ \E slug \in in.slugs, bearerToken \in in.bearerTokens,
        callId \in VapiCallIds, message \in VapiMessages,
        signature \in in.vapiSigs :
       LET d == VapiPrefix(slug, bearerToken, signature)
       IN IF d.error # None
          THEN Reject(r, "VAPI", d, AddressedTenant(slug, <<>>),
                      VapiIdempotencyKey(callId, message[1]), signature)
          ELSE Admit(r, "VAPI", d, AddressedTenant(slug, <<>>),
                     VapiIdempotencyKey(callId, message[1]), signature,
                     VapiEventId(callId, message[1], ts),
                     VapiBody(callId, message), in.limit)
  /\ UNCHANGED <<isProduction, webhookEvents, callQueue, deliveryQueue,
                 workerVars>>
  /\ UNCHANGED serviceVars

\* prisma.webhookEvent.findFirst({ where: { tenantId, idempotencyKey } })
FindExistingEvent(rows, tenantId, key) ==
  {row \in rows : row.tenantId = tenantId /\ row.idempotencyKey = key}

\* Lookup with a duplicate branch that enqueues the delivery of the stored
\* event again
LookupDuplicateRequeues(r) ==
  /\ req[r].pc = "lookup"
  /\ LET found == FindExistingEvent(webhookEvents, req[r].tenantId,
                                    req[r].idempotencyKey)
     IN IF found # {}
        THEN \E existingEvent \in found :
               /\ lastResp' = [code |-> "ALREADY_PROCESSED", http |-> 200,
                               provider |-> req[r].provider,
                               addressed |-> req[r].addressed,
                               eventId |-> existingEvent.eventId,
                               tenantId |-> req[r].tenantId,
                               idempotencyKey |-> req[r].idempotencyKey,
                               signature |-> req[r].signature,
                               sigVerdict |-> req[r].sigVerdict,
                               rows |-> 0, enq |-> 0]
               /\ deliveryQueue' = deliveryQueue (+) SetToBag(
                    {[eventId |-> existingEvent.eventId,
                      tenantId |-> req[r].tenantId, attemptNumber |-> 1,
                      delay |-> 0, origin |-> "ingest"]})
               /\ req' = [req EXCEPT ![r] = IdleReq]
        ELSE /\ req' = [req EXCEPT ![r].pc = "insert"]
             /\ UNCHANGED <<lastResp, deliveryQueue>>
  /\ UNCHANGED <<isProduction, now, webhookEvents, callQueue, accepted,
                 workerVars>>
  /\ UNCHANGED serviceVars

\* the await of findFirst returns: a duplicate is answered at once
Lookup(r) ==
  /\ req[r].pc = "lookup"
  /\ LET found == FindExistingEvent(webhookEvents, req[r].tenantId,
                                    req[r].idempotencyKey)
     IN IF found # {}
        THEN \E existingEvent \in found :
               /\ lastResp' = [code |-> "ALREADY_PROCESSED", http |-> 200,
                               provider |-> req[r].provider,
                               addressed |-> req[r].addressed,
                               eventId |-> existingEvent.eventId,
                               tenantId |-> req[r].tenantId,
                               idempotencyKey |-> req[r].idempotencyKey,
                               signature |-> req[r].signature,
                               sigVerdict |-> req[r].sigVerdict,
                               rows |-> 0, enq |-> 0]
               /\ req' = [req EXCEPT ![r] = IdleReq]
        ELSE /\ req' = [req EXCEPT ![r].pc = "insert"]
             /\ UNCHANGED lastResp
  /\ UNCHANGED <<isProduction, now, webhookEvents, callQueue, deliveryQueue,
                 accepted, workerVars>>
  /\ UNCHANGED serviceVars

\* webhook_events.event_id is unique: the workers read rows with
\* findUnique({ where: { eventId } })
EventIdFree(rows, eventId) ==
  \A row \in rows : row.eventId # eventId

\* the storage-level uniqueness constraint on (tenantId, idempotencyKey)
IdempotencyKeyFreeNoConstraint(rows, tenantId, key) == TRUE
IdempotencyKeyFree(rows, tenantId, key) ==
  \A row \in rows : ~(row.tenantId = tenantId /\ row.idempotencyKey = key)

\* prisma.webhookEvent.create: the row is stored, or the insert is refused
\* with P2002 and the error handler answers
Insert(r) ==
  /\ req[r].pc = "insert"
  /\ IF /\ EventIdFree(webhookEvents, req[r].eventId)
        /\ IdempotencyKeyFree(webhookEvents, req[r].tenantId,
                              req[r].idempotencyKey)
     THEN /\ webhookEvents' = webhookEvents \cup
               {[tenantId |-> req[r].tenantId, eventId |-> req[r].eventId,
                 source |-> req[r].provider,
                 idempotencyKey |-> req[r].idempotencyKey,
                 payload |-> req[r].payload, status |-> "PENDING"]}
          /\ req' = [req EXCEPT ![r].pc = "enqueueProcessing",
                                ![r].rows = 1]
          /\ UNCHANGED lastResp
     ELSE /\ Fail(r, "P2002")
          /\ UNCHANGED webhookEvents
  /\ UNCHANGED <<isProduction, now, callQueue, deliveryQueue, accepted,
                 workerVars>>
  /\ UNCHANGED serviceVars

\* The final response of a request that stored its event
Succeed(r, enq) ==
  /\ lastResp' = [code |-> "OK", http |-> 200,
                  provider |-> req[r].provider,
                  addressed |-> req[r].addressed,
                  eventId |-> req[r].eventId, tenantId |-> req[r].tenantId,
                  idempotencyKey |-> req[r].idempotencyKey,
                  signature |-> req[r].signature,
                  sigVerdict |-> req[r].sigVerdict,
                  rows |-> req[r].rows, enq |-> enq]
  /\ req' = [req EXCEPT ![r] = IdleReq]

\* await addCallProcessingJob({ eventId, tenantId }); the queue may be
\* unavailable, and then the call throws
EnqueueProcessing(r) ==
  /\ req[r].pc = "enqueueProcessing"
  /\ \E queueUp \in BOOLEAN :
       IF queueUp
       THEN /\ callQueue' = callQueue \cup
                 {[eventId |-> req[r].eventId, tenantId |-> req[r].tenantId]}
            /\ IF req[r].outboundWebhookUrl # None
               THEN /\ req' = [req EXCEPT ![r].pc = "enqueueDelivery",
                                          ![r].enq = 1]
                    /\ UNCHANGED lastResp
               ELSE Succeed(r, 1)
       ELSE /\ Fail(r, "QueueError")
            /\ UNCHANGED callQueue
  /\ UNCHANGED <<isProduction, now, webhookEvents, deliveryQueue, accepted,
                 workerVars>>
  /\ UNCHANGED serviceVars

\* await addWebhookDeliveryJob({ eventId, tenantId, attemptNumber: 1 })
EnqueueDelivery(r) ==
  /\ req[r].pc = "enqueueDelivery"
  /\ \E queueUp \in BOOLEAN :
       IF queueUp
       THEN /\ deliveryQueue' = deliveryQueue (+) SetToBag(
                 {[eventId |-> req[r].eventId, tenantId |-> req[r].tenantId,
                   attemptNumber |-> 1, delay |-> 0, origin |-> "ingest"]})
            /\ Succeed(r, 2)
       ELSE /\ Fail(r, "QueueError")
            /\ UNCHANGED deliveryQueue
  /\ UNCHANGED <<isProduction, now, webhookEvents, callQueue, accepted,
                 workerVars>>
  /\ UNCHANGED serviceVars

\* time passes
Tick ==
  /\ now < MaxTime
  /\ now' = now + 1
  /\ UNCHANGED <<isProduction, webhookEvents, callQueue, deliveryQueue, req,
                 accepted, lastResp, workerVars>>
  /\ UNCHANGED serviceVars

\* Requests handled concurrently
ReceiveTwilio(r) == ReceiveTwilioAt(r, now, PlainRequest) /\ UNCHANGED now
ReceiveVapi(r) == ReceiveVapiAt(r, now, PlainRequest) /\ UNCHANGED now

\* Requests submitted one after another: a request is sent when the response
\* to the one before has arrived, and it is received at a later millisecond.
NoRequestInFlight == \A r \in ReqIds : req[r].pc = "idle"
SubmitTwilio ==
  /\ NoRequestInFlight
  /\ now < MaxTime
  /\ now' = now + 1
  /\ ReceiveTwilioAt(1, now + 1, AnyRequest)
SubmitVapi ==
  /\ NoRequestInFlight
  /\ now < MaxTime
  /\ now' = now + 1
  /\ ReceiveVapiAt(1, now + 1, AnyRequest)

IngestInit ==
  /\ isProduction \in BOOLEAN
  /\ now = 0
  /\ webhookEvents = {}
  /\ callQueue = {}
  /\ deliveryQueue = EmptyBag
  /\ req = [r \in ReqIds |-> IdleReq]
  /\ accepted = 0
  /\ lastResp = NoResp

\* no call processed, nothing delivered
NoProcessed == [eventId |-> NoEventId, action |-> None, callId |-> 0,
                before |-> NoCall]
WorkersIdle ==
  /\ calls = {}
  /\ redisKeys = {}
  /\ metricsQueue = EmptyBag
  /\ lastProcessed = NoProcessed
  /\ webhookLogs = <<>>
  /\ deliveryTasks = {}
  /\ deadLetterQueue = {}
  /\ replays = 0

\* nothing signed yet
NoSigning == [pc |-> "idle", payload |-> None, secret |-> <<>>,
              other |-> <<>>, signature |-> <<>>, hexChars |-> 0,
              verified |-> FALSE, verifiedOther |-> FALSE]
\* no replay requested yet
NoReplay == [logId |-> 0, tenantId |-> None, code |-> None, http |-> 0,
             eventId |-> NoEventId, eventTenantId |-> None,
             attemptNumber |-> 0]
\* no signal was received: the workers take jobs, the connections are open
Signals == {"SIGTERM", "SIGINT"}
NoShutdown == [pc |-> [s \in Signals |-> "idle"], workers |-> "running",
               redis |-> "open", db |-> "open", exit |-> None]
\* the callers of acquireLock; a token is `${Date.now()}-${Math.random()}`,
\* one per call of acquireLock: the caller and the number of its call
Callers == {"a", "b", "c"}
NoToken == [owner |-> None, n |-> 0]
\* no lock is stored and no caller has called acquireLock
NoLock == [value |-> NoToken,
           caller |-> [c \in Callers |->
                         [pc |-> "idle", token |-> NoToken, n |-> 0,
                          expired |-> FALSE]]]
\* no status response
NoStatus == [header |-> None, code |-> None, http |-> 0,
             recentEvents |-> {}, deliveryStats |-> {}]
ServicesIdle ==
  /\ signing = NoSigning
  /\ lastReplay = NoReplay
  /\ dailyMetrics = {}
  /\ metricsTasks = EmptyBag
  /\ shutdown = NoShutdown
  /\ lastStatus = NoStatus
  /\ callTasks = {}
  /\ lock = NoLock

Init == IngestInit /\ WorkersIdle /\ ServicesIdle

\* Requests handled concurrently: every await is a point where another
\* request may run.
Next ==
  \/ \E r \in ReqIds : ReceiveTwilio(r)
  \/ \E r \in ReqIds : ReceiveVapi(r)
  \/ \E r \in ReqIds : Lookup(r)
  \/ \E r \in ReqIds : Insert(r)
  \/ \E r \in ReqIds : EnqueueProcessing(r)
  \/ \E r \in ReqIds : EnqueueDelivery(r)
  \/ Tick

Spec == Init /\ [][Next]_vars

SeqNext ==
  \/ SubmitTwilio
  \/ SubmitVapi
  \/ Lookup(1)
  \/ Insert(1)
  \/ EnqueueProcessing(1)
  \/ EnqueueDelivery(1)

SpecSeq == Init /\ [][SeqNext]_vars

(***************************************************************************)
(* The call state reducer (services/call.ts).                              *)
(***************************************************************************)
\* An UpdateCallInput with no field set
NoUpdates == [status |-> None, durationSeconds |-> NoDuration,
              recordingUrl |-> None, transcript |-> None,
              outcomeType |-> None, customerName |-> None, aiHandled |-> None]

\* `x && ...` for a number: undefined and 0 are falsy
TruthyNumber(n) == n # NoDuration /\ n # 0

\* the Redis key `idempotency:${tenantId}:${provider}:${externalCallId}`
CallIdempotencyKey(tenantId, provider, externalCallId) ==
  [tenantId |-> tenantId, provider |-> provider, id |-> Str(externalCallId)]

\* checkIdempotencyKey: the records stored under the key
CheckIdempotencyKey(keys, key) == {k \in keys : k.key = key}

\* setIdempotencyKey: SETEX replaces the record under the key
SetIdempotencyKey(keys, key, resourceId) ==
  {k \in keys : k.key # key} \cup {[key |-> key, resourceId |-> resourceId]}

\* findCallByExternalId: findUnique on (tenantId, externalCallId, provider)
FindCallByExternalId(rows, tenantId, externalCallId, provider) ==
  {c \in rows : /\ c.tenantId = tenantId
                /\ c.externalCallId = externalCallId
                /\ c.provider = provider}

\* createCall: the call recorded under the idempotency key when that record
\* and its row exist; otherwise a new row with status PENDING, refused with
\* P2002 when a row has the same (tenantId, externalCallId, provider).
CreateCall(rows, keys, tenantId, externalCallId, provider) ==
  LET key == CallIdempotencyKey(tenantId, provider, externalCallId)
      recorded == {c \in rows : \E k \in CheckIdempotencyKey(keys, key) :
                                  c.id = k.resourceId}
      call == [NoCall EXCEPT !.id = Cardinality(rows) + 1,
                             !.tenantId = tenantId,
                             !.externalCallId = externalCallId,
                             !.provider = provider,
                             !.status = "PENDING"]
  IN IF recorded # {}
     THEN [error |-> None, call |-> CHOOSE c \in recorded : TRUE,
           calls |-> rows, keys |-> keys]
     ELSE IF FindCallByExternalId(rows, tenantId, externalCallId,
                                  provider) # {}
     THEN [error |-> "P2002", call |-> NoCall, calls |-> rows, keys |-> keys]
     ELSE [error |-> None, call |-> call, calls |-> rows \cup {call},
           keys |-> SetIdempotencyKey(keys, key, call.id)]

\* updateCall, on one row: only the truthy fields of the input are written
\* (aiHandled: when it is not undefined)
UpdateCallKeepTerminal(call, input) == 
  [call EXCEPT
     !.durationSeconds = IF TruthyNumber(input.durationSeconds)
                         THEN input.durationSeconds ELSE @,
     !.recordingUrl = IF input.recordingUrl # None
                      THEN input.recordingUrl ELSE @,
     !.transcript = IF input.transcript # None THEN input.transcript ELSE @,
     !.outcomeType = IF input.outcomeType # None THEN input.outcomeType ELSE @,
     !.customerName = IF input.customerName # None
                      THEN input.customerName ELSE @,
     !.aiHandled = IF input.aiHandled # None THEN input.aiHandled ELSE @,
     !.status = IF @ \in {"COMPLETED", "FAILED", "NO_ANSWER", "BUSY",
                          "CANCELLED"} \/ input.status = None
                THEN @ ELSE input.status]
UpdateCall(call, input) ==
  [call EXCEPT
     !.status = IF input.status # None THEN input.status ELSE @,
     !.durationSeconds = IF TruthyNumber(input.durationSeconds)
                         THEN input.durationSeconds ELSE @,
     !.recordingUrl = IF input.recordingUrl # None
                      THEN input.recordingUrl ELSE @,
     !.transcript = IF input.transcript # None THEN input.transcript ELSE @,
     !.outcomeType = IF input.outcomeType # None THEN input.outcomeType ELSE @,
     !.customerName = IF input.customerName # None
                      THEN input.customerName ELSE @,
     !.aiHandled = IF input.aiHandled # None THEN input.aiHandled ELSE @]

\* the table after prisma.call.update({ where: { id, tenantId } })
UpdatedCalls(rows, call, input) ==
  (rows \ {call}) \cup {UpdateCall(call, input)}

mapTwilioStatus(status) ==
  CASE status = "queued" -> "PENDING"
    [] status = "ringing" -> "RINGING"
    [] status = "in-progress" -> "IN_PROGRESS"
    [] status = "completed" -> "COMPLETED"
    [] status = "busy" -> "BUSY"
    [] status = "failed" -> "FAILED"
    [] status = "no-answer" -> "NO_ANSWER"
    [] status = "canceled" -> "CANCELLED"
    [] OTHER -> "PENDING"

\* statusMap of processVapiEvent
VapiStatusMap(status) ==
  CASE status = "queued" -> "PENDING"
    [] status = "ringing" -> "RINGING"
    [] status = "in-progress" -> "IN_PROGRESS"
    [] status = "ended" -> "COMPLETED"
    [] status = "failed" -> "FAILED"
    [] OTHER -> "PENDING"

\* outcomeMap of processVapiEvent, on the lower-cased outcome
VapiOutcomeMap(outcome) ==
  CASE outcome \in {"booked", "appointment_scheduled"} -> "BOOKED"
    [] outcome = "missed" -> "MISSED"
    [] outcome = "transferred" -> "TRANSFERRED"
    [] outcome = "voicemail" -> "VOICEMAIL"
    [] outcome = "spam" -> "SPAM"
    [] outcome = "information" -> "INFO"
    [] outcome = "callback_requested" -> "CALLBACK_REQUESTED"
    [] OTHER -> "INFO"

\* The result of processing: the action taken, the call, and the tables
Processed(action, call, rows, keys) ==
  [error |-> None, action |-> action, callId |-> call.id,
   calls |-> rows, keys |-> keys]
Threw(error, rows, keys) ==
  [error |-> error, action |-> "threw", callId |-> 0,
   calls |-> rows, keys |-> keys]

\* processTwilioEvent
ProcessTwilioEvent(rows, keys, event, existingCall) ==
  LET raw == event.payload
      created == CreateCall(rows, keys, event.tenantId, raw.callId, "TWILIO")
      duration == IF raw.duration # NoDuration THEN raw.duration
                  ELSE NoDuration
      status == IF raw.status # None THEN mapTwilioStatus(raw.status)
                ELSE None
      updates == [NoUpdates EXCEPT
                    !.status = status,
                    !.durationSeconds = duration,
                    !.recordingUrl = raw.recordingUrl,
                    !.transcript = raw.transcript,
                    !.outcomeType =
                      IF status = "COMPLETED"
                      THEN IF TruthyNumber(duration) /\ duration > 0
                           THEN "INFO" ELSE "MISSED"
                      ELSE None]
  IN IF existingCall = NoCall
     THEN IF created.error # None
          THEN Threw(created.error, rows, keys)
          ELSE Processed("created", created.call,
                         UpdatedCalls(created.calls, created.call,
                                      [NoUpdates EXCEPT !.status = status]),
                         created.keys)
     ELSE Processed("updated", existingCall,
                    UpdatedCalls(rows, existingCall, updates), keys)


\* processVapiEvent
ProcessVapiEvent(rows, keys, event, existingCall) ==
  LET raw == event.payload
      created == CreateCall(rows, keys, event.tenantId, raw.callId, "VAPI")
      initial == [NoUpdates EXCEPT !.aiHandled = "true",
                                   !.transcript = raw.transcript,
                                   !.recordingUrl = raw.recordingUrl]
      updates == [NoUpdates EXCEPT
                    !.aiHandled = "true",
                    !.status = IF raw.status # None
                               THEN VapiStatusMap(raw.status) ELSE None,
                    !.durationSeconds = IF TruthyNumber(raw.duration)
                                        THEN raw.duration ELSE NoDuration,
                    !.transcript = raw.transcript,
                    !.recordingUrl = raw.recordingUrl,
                    !.outcomeType = IF raw.outcome # None
                                    THEN VapiOutcomeMap(raw.outcome)
                                    ELSE None,
                    !.customerName = raw.customerName]
  IN IF raw.callId = None
     THEN Threw("Vapi call ID not found in payload", rows, keys)
     ELSE IF existingCall = NoCall
     THEN IF created.error # None
          THEN Threw(created.error, rows, keys)
          ELSE Processed("created", created.call,
                         UpdatedCalls(created.calls, created.call, initial),
                         created.keys)
     ELSE Processed("updated", existingCall,
                    UpdatedCalls(rows, existingCall, updates), keys)

\* processCallEvent: the existing call is looked up only when the stored raw
\* body has a field callSid or id
ProcessCallEvent(rows, keys, event) ==
  LET found == IF event.payload.lookupId # None
               THEN FindCallByExternalId(rows, event.tenantId,
                                         event.payload.lookupId, event.source)
               ELSE {}
      call == IF found # {} THEN CHOOSE c \in found : TRUE ELSE NoCall
  IN IF event.source = "TWILIO"
     THEN ProcessTwilioEvent(rows, keys, event, call)
     ELSE ProcessVapiEvent(rows, keys, event, call)

(***************************************************************************)
(* callProcessingWorker (jobs/workers.ts).                                 *)
(***************************************************************************)
\* new Date().toISOString().split('T')[0]: the day of a timestamp
MsPerDay == 2
Today(ts) == ts \div MsPerDay

\* prisma.webhookEvent.update({ where: { eventId }, data: { status } })
SetEventStatus(rows, eventId, status) ==
  {IF row.eventId = eventId THEN [row EXCEPT !.status = status] ELSE row :
     row \in rows}

\* startedAt: new Date() in the createCall input: the rows created in a step
\* get the time of the step
StampStartedAt(rows, ts) ==
  {IF c.startedAt = NoTime THEN [c EXCEPT !.startedAt = ts] ELSE c :
     c \in rows}

\* One job of the call-processing queue, from the fetch of its event to the
\* metrics job.  When processCallEvent throws, the job fails and nothing else
\* is written.
ProcessCallJob(job) ==
  /\ job \in callQueue
  /\ callQueue' = callQueue \ {job}
  /\ \E event \in webhookEvents :
       /\ event.eventId = job.eventId
       /\ LET known == FindCallByExternalId(calls, event.tenantId,
                                            event.payload.callId, event.source)
              result == ProcessCallEvent(calls, redisKeys, event)
          IN /\ lastProcessed' =
                  [eventId |-> event.eventId, action |-> result.action,
                   callId |-> result.callId,
                   before |-> IF known # {} THEN CHOOSE c \in known : TRUE
                              ELSE NoCall]
             /\ calls' = StampStartedAt(result.calls, now)
             /\ redisKeys' = result.keys
             /\ IF result.error = None
                THEN /\ webhookEvents' =
                          SetEventStatus(webhookEvents, event.eventId,
                                         "COMPLETED")
                     /\ metricsQueue' = metricsQueue (+) SetToBag(
                          {[tenantId |-> job.tenantId, date |-> Today(now)]})
                ELSE UNCHANGED <<webhookEvents, metricsQueue>>
  /\ UNCHANGED <<isProduction, now, deliveryQueue, req, accepted, lastResp,
                 webhookLogs, deliveryTasks, deadLetterQueue, replays>>
  /\ UNCHANGED serviceVars

\* A Redis idempotency record reaches its TTL (IDEMPOTENCY_TTL, 24 hours)
ExpireIdempotencyKey ==
  /\ \E k \in redisKeys : redisKeys' = redisKeys \ {k}
  /\ UNCHANGED <<isProduction, now, webhookEvents, callQueue, deliveryQueue,
                 req, accepted, lastResp, calls, metricsQueue, lastProcessed,
                 webhookLogs, deliveryTasks, deadLetterQueue, replays>>
  /\ UNCHANGED serviceVars

\* Stored events waiting for the call-processing worker: bodies of one Twilio
\* call and one Vapi call, received for tenant t2 one per millisecond.
MaxEvents == 3
StoredBodies ==
  {[source |-> "TWILIO", kind |-> "ringing",
    payload |-> TwilioBody("CA1", "ringing")],
   [source |-> "TWILIO", kind |-> "completed",
    payload |-> TwilioBody("CA1", "completed")],
   [source |-> "TWILIO", kind |-> "completed",
    payload |-> Payload("CA1", "completed", 0, None, None, None, None, None)],
   [source |-> "TWILIO", kind |-> "ringing",
    payload |-> [TwilioBody("CA1", "ringing") EXCEPT !.lookupId = "CA1"]],
   [source |-> "TWILIO", kind |-> "completed",
    payload |-> [TwilioBody("CA1", "completed") EXCEPT !.lookupId = "CA1"]],
   [source |-> "VAPI", kind |-> "status-update",
    payload |-> VapiBody("v1", <<"status-update", "ringing">>)],
   [source |-> "VAPI", kind |-> "call-ended",
    payload |-> VapiBody("v1", <<"call-ended", "ended">>)],
   [source |-> "VAPI", kind |-> "call-ended",
    payload |-> Payload("v1", "ended", 45, None, None, None, None, None)],
   [source |-> "VAPI", kind |-> "call-ended",
    payload |-> [VapiBody("v1", <<"call-ended", "ended">>)
                   EXCEPT !.lookupId = "v1"]],
   [source |-> "VAPI", kind |-> "call-ended",
    payload |-> Payload("v1", "ended", 45, None, None, None, None, "v1")],
   [source |-> "VAPI", kind |-> "status-update",
    payload |-> Payload(None, "ringing", NoDuration, None, None, None, None,
                        None)]}

\* the row the route stores for a body received at ts
StoredEvent(tenantId, body, ts) ==
  [tenantId |-> tenantId,
   eventId |-> IF body.source = "TWILIO"
               THEN TwilioEventId(body.payload.callId, ts)
               ELSE VapiEventId(body.payload.callId, body.kind, ts),
   source |-> body.source,
   idempotencyKey |-> IF body.source = "TWILIO"
                      THEN TwilioIdempotencyKey(body.payload.callId, body.kind)
                      ELSE VapiIdempotencyKey(body.payload.callId, body.kind),
   payload |-> body.payload, status |-> "PENDING"]

CallsInit ==
  /\ isProduction = FALSE
  /\ req = [r \in ReqIds |-> IdleReq]
  /\ lastResp = NoResp
  /\ deliveryQueue = EmptyBag
  /\ WorkersIdle
  /\ ServicesIdle
  /\ \E n \in 1..MaxEvents : \E bodies \in [1..n -> StoredBodies] :
       /\ now = n
       /\ accepted = n
       /\ webhookEvents = {StoredEvent("t2", bodies[i], i) : i \in 1..n}
       /\ \A i, j \in 1..n :
            (StoredEvent("t2", bodies[i], i).idempotencyKey
               = StoredEvent("t2", bodies[j], j).idempotencyKey) => i = j
       /\ callQueue = {[eventId |-> e.eventId, tenantId |-> e.tenantId] :
                         e \in webhookEvents}

CallsNext ==
  \/ \E job \in callQueue : ProcessCallJob(job)
  \/ ExpireIdempotencyKey

SpecCalls == CallsInit /\ [][CallsNext]_vars

(***************************************************************************)
(* callProcessingWorker with concurrency 20: two of its tasks interleave   *)
(* at the awaits of processCallEvent.  A task reads (the lookup of the     *)
(* existing call and createCall's check of the Redis record) and later     *)
(* writes (prisma.call.create or update, the Redis record, the event).     *)
(***************************************************************************)
\* processCallEvent after its lookup
DispatchCallEvent(rows, keys, event, call) ==
  IF event.source = "TWILIO"
  THEN ProcessTwilioEvent(rows, keys, event, call)
  ELSE ProcessVapiEvent(rows, keys, event, call)

\* A task takes its job, fetches the event, looks the existing call up (when
\* the raw body has callSid or id) and reads the Redis record of the call.
\* identityExisted records whether a Call row of the identity was stored.
CallTaskRead(job) ==
  /\ job \in callQueue
  /\ callQueue' = callQueue \ {job}
  /\ \E event \in webhookEvents :
       /\ event.eventId = job.eventId
       /\ LET found == IF event.payload.lookupId # None
                       THEN FindCallByExternalId(calls, event.tenantId,
                                                 event.payload.lookupId,
                                                 event.source)
                       ELSE {}
              known == FindCallByExternalId(calls, event.tenantId,
                                            event.payload.callId, event.source)
          IN callTasks' = callTasks \cup
               {[eventId |-> job.eventId, tenantId |-> job.tenantId,
                 existingCall |-> IF found # {} THEN CHOOSE c \in found : TRUE
                                  ELSE NoCall,
                 seen |-> CheckIdempotencyKey(
                            redisKeys,
                            CallIdempotencyKey(event.tenantId, event.source,
                                               event.payload.callId)),
                 identityExisted |-> known # {}]}
  /\ UNCHANGED <<isProduction, now, webhookEvents, deliveryQueue, req,
                 accepted, lastResp, workerVars, signing, lastReplay,
                 dailyMetrics, metricsTasks, shutdown, lastStatus, lock>>

\* The task goes on with what it read: it creates or updates the call, sets
\* the Redis record, marks the event COMPLETED and enqueues the metrics job;
\* when a write throws, the job fails.
CallTaskWrite(task) ==
  /\ task \in callTasks
  /\ callTasks' = callTasks \ {task}
  /\ \E event \in webhookEvents :
       /\ event.eventId = task.eventId
       /\ LET known == FindCallByExternalId(calls, event.tenantId,
                                            event.payload.callId, event.source)
              result == DispatchCallEvent(calls, task.seen, event,
                                          task.existingCall)
              written == result.keys \ task.seen
          IN /\ lastProcessed' =
                  [eventId |-> event.eventId, action |-> result.action,
                   callId |-> result.callId,
                   before |-> IF known # {} THEN CHOOSE c \in known : TRUE
                              ELSE NoCall]
             /\ calls' = StampStartedAt(result.calls, now)
             /\ redisKeys' =
                  {k \in redisKeys : \A w \in written : k.key # w.key}
                    \cup written
             /\ IF result.error = None
                THEN /\ webhookEvents' =
                          SetEventStatus(webhookEvents, event.eventId,
                                         "COMPLETED")
                     /\ metricsQueue' = metricsQueue (+) SetToBag(
                          {[tenantId |-> task.tenantId, date |-> Today(now)]})
                ELSE UNCHANGED <<webhookEvents, metricsQueue>>
  /\ UNCHANGED <<isProduction, now, callQueue, deliveryQueue, req, accepted,
                 lastResp, webhookLogs, deliveryTasks, deadLetterQueue,
                 replays, signing, lastReplay, dailyMetrics, metricsTasks,
                 shutdown, lastStatus, lock>>

CallRaceNext ==
  \/ \E job \in callQueue : CallTaskRead(job)
  \/ \E task \in callTasks : CallTaskWrite(task)

SpecCallRace == CallsInit /\ [][CallRaceNext]_vars

(***************************************************************************)
(* aggregateDailyMetrics (services/metrics.ts) and                         *)
(* metricsAggregationWorker (jobs/workers.ts).  The server's time zone is  *)
(* UTC: setHours(0, 0, 0, 0) of the job's date is the start of that day.   *)
(***************************************************************************)
\* where: { tenantId, startedAt: { gte: startOfDay, lte: endOfDay } }
CallsOfDay(rows, tenantId, date) ==
  {c \in rows : /\ c.tenantId = tenantId
                /\ c.startedAt # NoTime
                /\ Today(c.startedAt) = date}

\* _sum: { durationSeconds: true }: the sum of the values that are not null
RECURSIVE SumDurationSeconds(_)
SumDurationSeconds(rows) ==
  IF rows = {} THEN 0
  ELSE LET c == CHOOSE x \in rows : TRUE
       IN (IF c.durationSeconds = NoDuration THEN 0 ELSE c.durationSeconds)
            + SumDurationSeconds(rows \ {c})

\* prisma.call.groupBy({ by: [direction, aiHandled, outcomeType, status] }):
\* one aggregation per combination of values that occurs; a sum of null when
\* no row of the group has a duration.  (The rows of the model have no
\* direction.)
GroupBy(rows) ==
  LET keyOf(c) == <<c.aiHandled, c.outcomeType, c.status>>
      members(k) == {c \in rows : keyOf(c) = k}
  IN {[aiHandled |-> k[1], outcomeType |-> k[2], status |-> k[3],
       count |-> Cardinality(members(k)),
       sum |-> IF \A c \in members(k) : c.durationSeconds = NoDuration
               THEN NoDuration ELSE SumDurationSeconds(members(k))] :
        k \in {keyOf(c) : c \in rows}}

\* a rollup with every counter 0
ZeroMetrics(tenantId, date) ==
  [tenantId |-> tenantId, date |-> date, totalCalls |-> 0,
   aiHandledCalls |-> 0, bookedCalls |-> 0, missedCalls |-> 0,
   transferredCalls |-> 0, voicemailCalls |-> 0, totalDurationSeconds |-> 0,
   avgDurationSeconds |-> 0]

\* for (const agg of aggregations) { ... }
RECURSIVE AddAggregations(_, _)
AddAggregations(aggregations, totals) ==
  IF aggregations = {} THEN totals
  ELSE LET agg == CHOOSE a \in aggregations : TRUE
           count == agg.count
           plus(outcome, n) == IF agg.outcomeType = outcome THEN n + count
                               ELSE n
       IN AddAggregations(
            aggregations \ {agg},
            [totals EXCEPT
               !.totalCalls = @ + count,
               !.aiHandledCalls = IF agg.aiHandled = "true" THEN @ + count
                                  ELSE @,
               !.bookedCalls = plus("BOOKED", @),
               !.missedCalls = plus("MISSED", @),
               !.transferredCalls = plus("TRANSFERRED", @),
               !.voicemailCalls = plus("VOICEMAIL", @),
               !.totalDurationSeconds =
                 @ + (IF agg.sum = NoDuration THEN 0 ELSE agg.sum)])

\* a rounding towards zero
MathFloor(n, d) == n \div d
\* Math.round(n / d) for n >= 0, d > 0: halves round up
MathRound(n, d) == (2 * n + d) \div (2 * d)

\* aggregateDailyMetrics up to the upsert: the values it is about to store
DailyRollup(rows, tenantId, date) ==
  LET totals == AddAggregations(GroupBy(CallsOfDay(rows, tenantId, date)),
                                ZeroMetrics(tenantId, date))
  IN [totals EXCEPT
        !.avgDurationSeconds =
          IF totals.totalCalls > 0
          THEN MathRound(totals.totalDurationSeconds, totals.totalCalls)
          ELSE 0]

\* an upsert that adds the counters to those of the stored row
UpsertAdding(rows, row) ==
  LET old == {m \in rows : m.tenantId = row.tenantId /\ m.date = row.date}
  IN (rows \ old) \cup
       {IF old = {} THEN row
        ELSE LET m == CHOOSE x \in old : TRUE
             IN [row EXCEPT
                   !.totalCalls = @ + m.totalCalls,
                   !.bookedCalls = @ + m.bookedCalls,
                   !.missedCalls = @ + m.missedCalls,
                   !.totalDurationSeconds = @ + m.totalDurationSeconds]}
\* prisma.dailyMetrics.upsert({ where: { tenantId_date }, update, create }):
\* the row of (tenantId, date) gets the given values
Upsert(rows, row) ==
  {m \in rows : ~(m.tenantId = row.tenantId /\ m.date = row.date)}
    \cup {row}

\* The metrics worker takes a job; aggregateDailyMetrics reads and sums the
\* calls of the day.
MetricsRead(job) ==
  /\ BagIn(job, metricsQueue)
  /\ metricsQueue' = metricsQueue (-) SetToBag({job})
  /\ metricsTasks' = metricsTasks (+)
       SetToBag({DailyRollup(calls, job.tenantId, job.date)})
  /\ UNCHANGED <<ingestVars, calls, redisKeys, lastProcessed, webhookLogs,
                 deliveryTasks, deadLetterQueue, replays, signing, lastReplay,
                 dailyMetrics, shutdown, lastStatus,
                 callTasks, lock>>

\* the await of the read returns; the upsert stores the values
MetricsUpsert(task) ==
  /\ BagIn(task, metricsTasks)
  /\ metricsTasks' = metricsTasks (-) SetToBag({task})
  /\ dailyMetrics' = Upsert(dailyMetrics, task)
  /\ UNCHANGED <<ingestVars, workerVars, signing, lastReplay, shutdown,
                 lastStatus,
                 callTasks, lock>>

\* Calls stored before the run, for the day of the run and the day before
MetricsCalls ==
  {[NoCall EXCEPT !.id = 101, !.tenantId = "t2", !.externalCallId = "v1",
                  !.provider = "VAPI", !.status = "COMPLETED",
                  !.durationSeconds = 120, !.outcomeType = "BOOKED",
                  !.aiHandled = "true", !.startedAt = MsPerDay],
   [NoCall EXCEPT !.id = 102, !.tenantId = "t2", !.externalCallId = "CA1",
                  !.provider = "TWILIO", !.status = "COMPLETED",
                  !.outcomeType = "MISSED", !.startedAt = MsPerDay],
   [NoCall EXCEPT !.id = 103, !.tenantId = "t2", !.externalCallId = "CA1",
                  !.provider = "TWILIO", !.status = "COMPLETED",
                  !.durationSeconds = 45, !.outcomeType = "INFO",
                  !.startedAt = MsPerDay - 1],
   [NoCall EXCEPT !.id = 104, !.tenantId = "t1", !.externalCallId = "CA8",
                  !.provider = "TWILIO", !.status = "COMPLETED",
                  !.durationSeconds = 45, !.outcomeType = "INFO",
                  !.startedAt = MsPerDay]}
\* the events waiting for the call worker: bodies that update a stored call
\* (found by callSid or id) or create one
MaxMetricsEvents == 2
MetricsBodies ==
  {b \in StoredBodies : b.payload.lookupId # None \/ b.kind = "ringing"}

\* Events of tenant t2 are stored and queued for the call worker; no metrics
\* job has run.
MetricsInit ==
  /\ isProduction = FALSE
  /\ req = [r \in ReqIds |-> IdleReq]
  /\ lastResp = NoResp
  /\ deliveryQueue = EmptyBag
  /\ redisKeys = {}
  /\ metricsQueue = EmptyBag
  /\ lastProcessed = NoProcessed
  /\ webhookLogs = <<>>
  /\ deliveryTasks = {}
  /\ deadLetterQueue = {}
  /\ replays = 0
  /\ signing = NoSigning
  /\ lastReplay = NoReplay
  /\ dailyMetrics = {}
  /\ metricsTasks = EmptyBag
  /\ shutdown = NoShutdown
  /\ lastStatus = NoStatus
  /\ callTasks = {}
  /\ lock = NoLock
  /\ now = MsPerDay
  /\ calls \in SUBSET MetricsCalls
  /\ \A c1, c2 \in calls :
       (c1.tenantId = c2.tenantId /\ c1.externalCallId = c2.externalCallId
          /\ c1.provider = c2.provider) => c1 = c2
  /\ \E n \in 1..MaxMetricsEvents : \E bodies \in [1..n -> MetricsBodies] :
       /\ accepted = n
       /\ webhookEvents = {StoredEvent("t2", bodies[i], i) : i \in 1..n}
       /\ \A i, j \in 1..n :
            (StoredEvent("t2", bodies[i], i).idempotencyKey
               = StoredEvent("t2", bodies[j], j).idempotencyKey) => i = j
       /\ callQueue = {[eventId |-> e.eventId, tenantId |-> e.tenantId] :
                         e \in webhookEvents}

MetricsNext ==
  \/ \E job \in callQueue : ProcessCallJob(job)
  \/ \E job \in BagToSet(metricsQueue) : MetricsRead(job)
  \/ \E task \in BagToSet(metricsTasks) : MetricsUpsert(task)

SpecMetrics == MetricsInit /\ [][MetricsNext]_vars

(***************************************************************************)
(* Outbound delivery: webhookDeliveryWorker (jobs/workers.ts),             *)
(* deliverWebhook and retryWebhookDelivery (services/webhook.ts).          *)
(***************************************************************************)
\* config.webhookDelivery
MaxRetries == 5
RetryDelays == <<5000, 15000, 30000, 60000, 300000>>
\* manual replay requests served in a run
MaxReplays == 1

\* attemptNumber >= config.webhookDelivery.maxRetries
ShouldDeadLetterAfterCeiling(attemptNumber) == attemptNumber > MaxRetries
ShouldDeadLetter(attemptNumber) == attemptNumber >= MaxRetries

\* a delay computed by doubling instead of read from the table
RetryDelayDoubling(attemptNumber) == 5000 * 2 ^ (attemptNumber - 1)

\* config.webhookDelivery.retryDelays[attemptNumber - 1] || 300000
RetryDelay(attemptNumber) ==
  IF attemptNumber \in 1..Len(RetryDelays) THEN RetryDelays[attemptNumber]
  ELSE 300000

\* a job of the webhook-delivery queue
DeliveryJob(eventId, tenantId, attemptNumber, delay, origin) ==
  [eventId |-> eventId, tenantId |-> tenantId,
   attemptNumber |-> attemptNumber, delay |-> delay, origin |-> origin]

\* an update of every log row of the event the row belongs to
SetLogStatusOfEvent(logs, id, status) ==
  [i \in DOMAIN logs |->
     IF logs[i].eventId = logs[id].eventId
     THEN [logs[i] EXCEPT !.status = status] ELSE logs[i]]

\* prisma.webhookLog.update({ where: { id }, data: { status } })
SetLogStatus(logs, id, status) == [logs EXCEPT ![id].status = status]

\* config.WEBHOOK_SECRET, the secret used when the tenant has none
ConfigWebhookSecret == "webhook-secret"

\* The bytes of the secrets configured in the runs (a secret is a string, the
\* key of the HMAC is its UTF-8 encoding)
Utf8(secret) ==
  CASE secret = "out1" -> <<1>>
    [] secret = ConfigWebhookSecret -> <<1, 1>>

\* The block size of the hash, in bytes (64 for SHA-256, scaled down)
HmacBlockBytes == 2
\* createHmac('sha256', secret): HMAC pads a key shorter than the block with
\* zero bytes up to the block size and replaces a longer key by its digest
HmacKey(secret) ==
  IF Len(secret) > HmacBlockBytes
  THEN [hashed |-> TRUE, bytes |-> secret]
  ELSE [hashed |-> FALSE,
        bytes |-> secret \o [i \in 1..(HmacBlockBytes - Len(secret)) |-> 0]]

\* createHmac('sha256', secret).update(payload, 'utf8').digest('hex'): the
\* digest determines the key and the bytes it was computed over
GenerateWebhookSignature(payload, secret) == <<HmacKey(secret), payload>>
\* the length of digest('hex'): two characters per byte
DigestHexChars == 2 * Sha256Bytes

\* a verification that accepts a signature of the payload under any secret
VerifyWebhookSignatureAnySecret(payload, signature, secret) ==
  signature[2] = payload
\* timingSafeEqual(Buffer.from(signature, 'hex'), Buffer.from(expected, 'hex'))
\* for a signature of the digest's length
VerifyWebhookSignature(payload, signature, secret) ==
  signature = GenerateWebhookSignature(payload, secret)
\* `sha256=${signature}`
GenerateSignatureHeader(payload, secret) ==
  <<"sha256=", GenerateWebhookSignature(payload, secret)>>
\* signature: '' in the payload that is signed; a string is the sequence of its
\* characters
EmptySignature == <<>>
\* JSON.stringify({ eventId, eventType, timestamp, data, signature })
Stringify(eventId, timestamp, data, signature) ==
  <<eventId, timestamp, data, signature>>
\* The request deliverWebhook sends for an event at time ts: the signature is
\* computed over the payload with an empty signature field, then stored in the
\* payload, which is serialised again for the body.
OutboundRequest(event, ts) ==
  LET payloadString == Stringify(event.eventId, ts, event.payload,
                                 EmptySignature)
      tenantSecret == Tenant(event.tenantId).outboundWebhookSecret
      secret == IF tenantSecret # None THEN tenantSecret
                ELSE ConfigWebhookSecret
      signature == GenerateSignatureHeader(payloadString, Utf8(secret))
      finalPayload == Stringify(event.eventId, ts, event.payload, signature)
  IN [header |-> signature, body |-> finalPayload]

\* The worker takes a job: it fetches the event and its tenant, and
\* deliverWebhook stores the delivery log, PENDING, before the request is sent.
\* Without an outbound URL the job ends as skipped.
DeliveryStart(job) ==
  /\ BagIn(job, deliveryQueue)
  /\ deliveryQueue' = deliveryQueue (-) SetToBag({job})
  /\ \E event \in webhookEvents :
       /\ event.eventId = job.eventId
       /\ IF Tenant(event.tenantId).outboundWebhookUrl = None
          THEN UNCHANGED <<webhookLogs, deliveryTasks>>
          ELSE /\ webhookLogs' = Append(webhookLogs,
                    [eventId |-> event.eventId, tenantId |-> event.tenantId,
                     attemptNumber |-> job.attemptNumber,
                     status |-> "PENDING"])
               /\ deliveryTasks' = deliveryTasks \cup
                    {[eventId |-> job.eventId, tenantId |-> job.tenantId,
                      attemptNumber |-> job.attemptNumber,
                      logId |-> Len(webhookLogs) + 1,
                      request |-> OutboundRequest(event, now)]}
  /\ UNCHANGED <<isProduction, now, webhookEvents, callQueue, req, accepted,
                 lastResp, calls, redisKeys, metricsQueue, lastProcessed,
                 deadLetterQueue, replays>>
  /\ UNCHANGED serviceVars

\* a worker that schedules the next attempt after a success as well
DeliveryFinishRequeues(task) ==
  /\ task \in deliveryTasks
  /\ deliveryTasks' = deliveryTasks \ {task}
  /\ \E ok \in BOOLEAN :
       IF ok
       THEN /\ webhookLogs' = SetLogStatus(webhookLogs, task.logId,
                                           "DELIVERED")
            /\ webhookEvents' = SetEventStatus(webhookEvents, task.eventId,
                                               "COMPLETED")
            /\ deliveryQueue' = deliveryQueue (+) SetToBag(
                 {DeliveryJob(task.eventId, task.tenantId,
                              task.attemptNumber + 1,
                              RetryDelay(task.attemptNumber), "retry")})
            /\ UNCHANGED deadLetterQueue
       ELSE /\ webhookLogs' = SetLogStatus(webhookLogs, task.logId, "FAILED")
            /\ IF ShouldDeadLetter(task.attemptNumber)
               THEN /\ webhookEvents' =
                         SetEventStatus(webhookEvents, task.eventId,
                                        "DEAD_LETTER")
                    /\ deadLetterQueue' = deadLetterQueue \cup {task}
                    /\ UNCHANGED deliveryQueue
               ELSE /\ webhookEvents' =
                         SetEventStatus(webhookEvents, task.eventId,
                                        "RETRYING")
                    /\ deliveryQueue' = deliveryQueue (+) SetToBag(
                         {DeliveryJob(task.eventId, task.tenantId,
                                      task.attemptNumber + 1,
                                      RetryDelay(task.attemptNumber),
                                      "retry")})
                    /\ UNCHANGED deadLetterQueue
  /\ UNCHANGED <<isProduction, now, callQueue, req, accepted, lastResp,
                 calls, redisKeys, metricsQueue, lastProcessed, replays>>
  /\ UNCHANGED serviceVars

\* The request ends, with a 2xx response (ok) or with any other response, a
\* transport error or a timeout.  deliverWebhook updates the log and the
\* worker writes the event's status, then dead-letters or re-enqueues.
DeliveryFinish(task) ==
  /\ task \in deliveryTasks
  /\ deliveryTasks' = deliveryTasks \ {task}
  /\ \E ok \in BOOLEAN :
       IF ok
       THEN /\ webhookLogs' = SetLogStatus(webhookLogs, task.logId,
                                           "DELIVERED")
            /\ webhookEvents' = SetEventStatus(webhookEvents, task.eventId,
                                               "COMPLETED")
            /\ UNCHANGED <<deliveryQueue, deadLetterQueue>>
       ELSE /\ webhookLogs' = SetLogStatus(webhookLogs, task.logId, "FAILED")
            /\ IF ShouldDeadLetter(task.attemptNumber)
               THEN /\ webhookEvents' =
                         SetEventStatus(webhookEvents, task.eventId,
                                        "DEAD_LETTER")
                    /\ deadLetterQueue' = deadLetterQueue \cup {task}
                    /\ UNCHANGED deliveryQueue
               ELSE /\ webhookEvents' =
                         SetEventStatus(webhookEvents, task.eventId,
                                        "RETRYING")
                    /\ deliveryQueue' = deliveryQueue (+) SetToBag(
                         {DeliveryJob(task.eventId, task.tenantId,
                                      task.attemptNumber + 1,
                                      RetryDelay(task.attemptNumber),
                                      "retry")})
                    /\ UNCHANGED deadLetterQueue
  /\ UNCHANGED <<isProduction, now, callQueue, req, accepted, lastResp,
                 calls, redisKeys, metricsQueue, lastProcessed, replays>>
  /\ UNCHANGED serviceVars

\* next(error) in the retry route: the error handler's response
ReplayFailed(logId, tenantId, err) ==
  [NoReplay EXCEPT !.logId = logId, !.tenantId = tenantId,
                   !.code = ErrorCode(err), !.http = ErrorHttp(err)]

\* a replay that starts over at attempt 1
ReplayAttemptNumberFirst(log) == 1
\* const newAttemptNumber = log.attemptNumber + 1
ReplayAttemptNumber(log) == log.attemptNumber + 1

\* POST /webhooks/deliveries/:id/retry and retryWebhookDelivery(logId,
\* tenantId): a delivery job for the log's event with the log's attempt number
\* plus one; a plain Error, passed to the error handler, when the tenant has
\* no such log or the log has no event.
ManualReplay(logId, tenantId) ==
  /\ replays < MaxReplays
  /\ replays' = replays + 1
  /\ LET found == {id \in 1..Len(webhookLogs) :
                     id = logId /\ webhookLogs[id].tenantId = tenantId}
     IN IF found = {}
        THEN /\ lastReplay' = ReplayFailed(logId, tenantId, "Error")
             /\ UNCHANGED deliveryQueue
        ELSE LET log == webhookLogs[logId]
                 events == {e \in webhookEvents : e.eventId = log.eventId}
             IN IF events = {}
                THEN /\ lastReplay' = ReplayFailed(logId, tenantId, "Error")
                     /\ UNCHANGED deliveryQueue
                ELSE \E event \in events :
                       /\ deliveryQueue' = deliveryQueue (+) SetToBag(
                            {DeliveryJob(event.eventId, event.tenantId,
                                         ReplayAttemptNumber(log), 0,
                                         "replay")})
                       /\ lastReplay' =
                            [logId |-> logId, tenantId |-> tenantId,
                             code |-> "OK", http |-> 200,
                             eventId |-> event.eventId,
                             eventTenantId |-> event.tenantId,
                             attemptNumber |-> ReplayAttemptNumber(log)]
  /\ UNCHANGED <<isProduction, now, webhookEvents, callQueue, req, accepted,
                 lastResp, calls, redisKeys, metricsQueue, lastProcessed,
                 webhookLogs, deliveryTasks, deadLetterQueue>>
  /\ UNCHANGED <<signing, dailyMetrics, metricsTasks, shutdown, lastStatus,
                 callTasks, lock>>

(***************************************************************************)
(* GET /webhooks/status (routes/webhooks.ts).  The router is mounted       *)
(* without an authentication middleware (routes/index.ts).                 *)
(***************************************************************************)
\* prisma.webhookEvent.findMany({ where: { tenantId }, take: 10, select }):
\* the model never stores more than 10 events
RecentEvents(rows, tenantId) ==
  {[eventId |-> e.eventId, tenantId |-> e.tenantId, source |-> e.source,
    status |-> e.status] : e \in {x \in rows : x.tenantId = tenantId}}

\* prisma.webhookLog.groupBy({ by: ['status'], where: { tenantId } })
DeliveryStats(logs, tenantId) ==
  LET ids == {i \in 1..Len(logs) : logs[i].tenantId = tenantId}
  IN {<<st, Cardinality({i \in ids : logs[i].status = st})>> :
        st \in {logs[i].status : i \in ids}}

\* the tenant of the URL path or of the authenticated session
StatusResolvedTenant(header) == None
\* const tenantId = req.headers['x-tenant-id']
StatusTenant(header) == header

\* The route answers a request whose X-Tenant-ID header is the given value
\* (None: no header).
WebhookStatus(header) ==
  /\ lastStatus' =
       IF StatusTenant(header) = None
       THEN [NoStatus EXCEPT !.code = "MISSING_TENANT", !.http = 400]
       ELSE [header |-> header, code |-> "OK", http |-> 200,
             recentEvents |-> RecentEvents(webhookEvents,
                                           StatusTenant(header)),
             deliveryStats |-> DeliveryStats(webhookLogs,
                                             StatusTenant(header))]
  /\ UNCHANGED <<ingestVars, workerVars, signing, lastReplay, dailyMetrics,
                 metricsTasks, shutdown,
                 callTasks, lock>>

\* One event of tenant t1, which has an outbound URL, was received at
\* millisecond 1 and answered: its row is stored and its processing job and
\* its first delivery job are enqueued.
DeliveryInit ==
  /\ isProduction = FALSE
  /\ now = 1
  /\ req = [r \in ReqIds |-> IdleReq]
  /\ accepted = 1
  /\ WorkersIdle
  /\ ServicesIdle
  /\ \E body \in {b \in StoredBodies : b.payload.recordingUrl # None
                                       /\ b.payload.lookupId = None} :
       LET event == StoredEvent("t1", body, 1)
       IN /\ webhookEvents = {event}
          /\ callQueue = {[eventId |-> event.eventId, tenantId |-> "t1"]}
          /\ deliveryQueue =
               SetToBag({DeliveryJob(event.eventId, "t1", 1, 0, "ingest")})
          /\ lastResp = [NoResp EXCEPT !.code = "OK", !.http = 200,
                           !.addressed = "t1",
                           !.provider = event.source,
                           !.eventId = event.eventId, !.tenantId = "t1",
                           !.idempotencyKey = event.idempotencyKey,
                           !.sigVerdict = "skipped", !.rows = 1, !.enq = 2]

DeliveryNext ==
  \/ \E job \in BagToSet(deliveryQueue) : DeliveryStart(job)
  \/ \E task \in deliveryTasks : DeliveryFinish(task)
  \/ \E logId \in 1..Len(webhookLogs) + 1, tenantId \in {"t1", "t2"} :
       ManualReplay(logId, tenantId)
  \/ \E job \in callQueue : ProcessCallJob(job)

SpecDelivery == DeliveryInit /\ [][DeliveryNext]_vars

\* At-least-once hand-over: the queue gives the event's first delivery job
\* to a worker and, the job's lock having expired (a stalled job), will give
\* it to a worker once more.  The worker handles it as DeliveryStart does.
DeliveryStartStalled(job) ==
  /\ BagIn(job, deliveryQueue)
  /\ job.origin = "ingest"
  /\ deliveryQueue' = (deliveryQueue (-) SetToBag({job}))
                        (+) SetToBag({[job EXCEPT !.origin = "stalled"]})
  /\ \E event \in webhookEvents :
       /\ event.eventId = job.eventId
       /\ IF Tenant(event.tenantId).outboundWebhookUrl = None
          THEN UNCHANGED <<webhookLogs, deliveryTasks>>
          ELSE /\ webhookLogs' = Append(webhookLogs,
                    [eventId |-> event.eventId, tenantId |-> event.tenantId,
                     attemptNumber |-> job.attemptNumber,
                     status |-> "PENDING"])
               /\ deliveryTasks' = deliveryTasks \cup
                    {[eventId |-> job.eventId, tenantId |-> job.tenantId,
                      attemptNumber |-> job.attemptNumber,
                      logId |-> Len(webhookLogs) + 1,
                      request |-> OutboundRequest(event, now)]}
  /\ UNCHANGED <<isProduction, now, webhookEvents, callQueue, req, accepted,
                 lastResp, calls, redisKeys, metricsQueue, lastProcessed,
                 deadLetterQueue, replays>>
  /\ UNCHANGED serviceVars

\* the delivery worker with a queue that hands the first job over twice
RedeliveryNext ==
  \/ \E job \in BagToSet(deliveryQueue) : DeliveryStart(job)
  \/ \E job \in BagToSet(deliveryQueue) : DeliveryStartStalled(job)
  \/ \E task \in deliveryTasks : DeliveryFinish(task)

SpecRedelivery == DeliveryInit /\ [][RedeliveryNext]_vars

\* the delivery runs with requests to the status route
StatusNext ==
  \/ \E job \in BagToSet(deliveryQueue) : DeliveryStart(job)
  \/ \E task \in deliveryTasks : DeliveryFinish(task)
  \/ \E job \in callQueue : ProcessCallJob(job)
  \/ \E header \in {None, "t1", "t2"} : WebhookStatus(header)

SpecStatus == DeliveryInit /\ [][StatusNext]_vars

(***************************************************************************)
(* generateWebhookSignature and verifyWebhookSignature as functions of     *)
(* their arguments.                                                        *)
(***************************************************************************)
\* the longest secret, in bytes; byte 0 is the NUL character
MaxSecretLen == 3
SecretByte == {0, 1}
Secrets == UNION {[1..n -> SecretByte] : n \in 0..MaxSecretLen}
SignedPayloads == {"p1", "p2"}

\* generateWebhookSignature(payload, secret)
Sign ==
  /\ signing.pc = "input"
  /\ signing' = [signing EXCEPT
                   !.pc = "signed",
                   !.signature =
                     GenerateWebhookSignature(signing.payload, signing.secret),
                   !.hexChars = DigestHexChars]
  /\ UNCHANGED <<ingestVars, workerVars, lastReplay, dailyMetrics,
                 metricsTasks, shutdown, lastStatus,
                 callTasks, lock>>

\* verifyWebhookSignature(payload, signature, secret) and the same with the
\* other secret
Verify ==
  /\ signing.pc = "signed"
  /\ signing' = [signing EXCEPT
                   !.pc = "verified",
                   !.verified =
                     VerifyWebhookSignature(signing.payload, signing.signature,
                                            signing.secret),
                   !.verifiedOther =
                     VerifyWebhookSignature(signing.payload, signing.signature,
                                            signing.other)]
  /\ UNCHANGED <<ingestVars, workerVars, lastReplay, dailyMetrics,
                 metricsTasks, shutdown, lastStatus,
                 callTasks, lock>>

SignInit ==
  /\ IngestInit
  /\ WorkersIdle
  /\ lastReplay = NoReplay
  /\ dailyMetrics = {}
  /\ metricsTasks = EmptyBag
  /\ shutdown = NoShutdown
  /\ lastStatus = NoStatus
  /\ callTasks = {}
  /\ lock = NoLock
  /\ \E payload \in SignedPayloads, secret \in Secrets, other \in Secrets :
       /\ secret # other
       /\ signing = [NoSigning EXCEPT !.pc = "input", !.payload = payload,
                                      !.secret = secret, !.other = other]
SignNext == Sign \/ Verify
SpecSign == SignInit /\ [][SignNext]_vars

(***************************************************************************)
(* Properties of the inbound webhook routes.                               *)
(***************************************************************************)
\* the rows stored for the tenant and key of the last response
RowsOfLastResp ==
  FindExistingEvent(webhookEvents, lastResp.tenantId, lastResp.idempotencyKey)

\* the last response refused the credentials of its request
CredentialsRefused ==
  \/ lastResp.code \in {"INVALID_SIGNATURE", "INVALID_TOKEN"}
  \/ lastResp.sigVerdict = "throw"

\* C1: when events are submitted one after another, every submission of an
\* event for an ACTIVE tenant, whose credentials are not refused, leaves
\* exactly one stored row with the event's (tenantId, idempotencyKey), and a
\* submission answered 'Event already processed' carries that row's eventId.
C1_StoredExactlyOnce ==
  (/\ lastResp.tenantId # None
   /\ Tenant(lastResp.tenantId).status = "ACTIVE"
   /\ ~CredentialsRefused)
  => /\ Cardinality(RowsOfLastResp) = 1
     /\ lastResp.code = "ALREADY_PROCESSED"
          => \A row \in RowsOfLastResp : row.eventId = lastResp.eventId

\* C1, for the requests that reach the idempotency lookup: the same statement
\* holds of every request that was not turned away at tenant resolution.
C1_StoredExactlyOnceWhenAdmitted ==
  (/\ lastResp.tenantId # None
   /\ lastResp.code \in {"OK", "ALREADY_PROCESSED", "INTERNAL_ERROR",
                         "DUPLICATE_ENTRY"}
   /\ ~CredentialsRefused)
  => /\ Cardinality(RowsOfLastResp) = 1
     /\ lastResp.code # "DUPLICATE_ENTRY"
     /\ lastResp.code = "ALREADY_PROCESSED"
          => \A row \in RowsOfLastResp : row.eventId = lastResp.eventId

\* C2: in every reachable state of concurrently handled requests, at most one
\* stored row has a given (tenantId, idempotencyKey).
C2_AtMostOneRowPerKey ==
  \A row1, row2 \in webhookEvents :
    (row1.tenantId = row2.tenantId
       /\ row1.idempotencyKey = row2.idempotencyKey) => row1 = row2

\* Two requests with the same event raced: one stored the row while the other
\* was between its lookup, which found nothing, and its insert.
C2_Witness_RaceLost ==
  \E r \in ReqIds : \E row \in webhookEvents :
    /\ req[r].pc = "insert"
    /\ row.tenantId = req[r].tenantId
    /\ row.idempotencyKey = req[r].idempotencyKey
    /\ row.eventId # req[r].eventId

\* the signature header of the last response's request is the HMAC under the
\* secret configured for its tenant
SecretOfLastResp ==
  IF lastResp.provider = "TWILIO" THEN Tenant(lastResp.tenantId).authToken
  ELSE Tenant(lastResp.tenantId).webhookSecret
SignatureVerifies ==
  /\ lastResp.signature.secret = SecretOfLastResp
  /\ lastResp.signature.len =
       IF lastResp.provider = "TWILIO" THEN Sha1Bytes ELSE Sha256Bytes

\* C10: in production, a request for an ACTIVE tenant with a configured
\* secret whose signature does not verify against that secret is answered
\* INVALID_SIGNATURE, and the request has stored no row and enqueued no job.
C10_UnverifiedRejected ==
  (/\ isProduction
   /\ lastResp.tenantId # None
   /\ lastResp.code \notin {"TENANT_INACTIVE", "INVALID_TOKEN"}
   /\ SecretOfLastResp # None
   /\ ~SignatureVerifies)
  => /\ lastResp.code = "INVALID_SIGNATURE"
     /\ lastResp.rows = 0
     /\ lastResp.enq = 0

\* C11: in production, a request for a tenant with a configured secret that
\* got an event stored or a task enqueued had its signature verified
\* successfully.
C11_StoredOnlyWhenVerified ==
  (/\ isProduction
   /\ lastResp.tenantId # None
   /\ SecretOfLastResp # None
   /\ (lastResp.rows > 0 \/ lastResp.enq > 0))
  => lastResp.sigVerdict = "true"

\* the request of the last response was addressed to no tenant, or to a
\* tenant that is not ACTIVE
NoActiveTenantAddressed(resp) ==
  IF resp.addressed = None THEN TRUE
  ELSE Tenant(resp.addressed).status # "ACTIVE"

\* C12: a webhook for which no tenant is resolved is answered
\* TENANT_NOT_FOUND, and one whose tenant is not ACTIVE is answered
\* TENANT_INACTIVE; the step that answers stores no WebhookEvent row and
\* enqueues nothing, and the request has stored and enqueued nothing before.
C12_RejectedBeforeAnyState ==
  [][(lastResp'.provider # None /\ NoActiveTenantAddressed(lastResp'))
       => /\ lastResp'.code = IF lastResp'.addressed = None
                              THEN "TENANT_NOT_FOUND" ELSE "TENANT_INACTIVE"
          /\ lastResp'.rows = 0
          /\ lastResp'.enq = 0
          /\ (lastResp' # lastResp
                => UNCHANGED <<webhookEvents, callQueue, deliveryQueue>>)]_vars
\* a request for the suspended tenant is rejected when an event of another
\* tenant is stored and queued
C12_Witness_RejectedAfterStore ==
  /\ lastResp.code = "TENANT_INACTIVE"
  /\ lastResp.addressed = "t3"
  /\ webhookEvents # {}
  /\ callQueue # {}

\* C13: a Twilio webhook is resolved to the ACTIVE tenant that owns its To
\* number, in preference to the URL slug, and to the tenant of the slug when
\* no active tenant owns the number; addressed to an ACTIVE tenant it is
\* accepted for that tenant, not rejected at tenant resolution.
C13_ResolvedByPhoneThenSlug ==
  lastResp.provider = "TWILIO"
  => /\ lastResp.tenantId = lastResp.addressed
     /\ ~NoActiveTenantAddressed(lastResp)
          => lastResp.code \notin {"TENANT_NOT_FOUND", "TENANT_INACTIVE"}

\* an event with the tenant and idempotency key of request r is stored when
\* its lookup runs
DuplicateSubmission(r) ==
  /\ req[r].pc = "lookup"
  /\ \E row \in webhookEvents : /\ row.tenantId = req[r].tenantId
                                /\ row.idempotencyKey = req[r].idempotencyKey

\* C14: the step that handles a submission whose (tenantId, idempotencyKey)
\* is already stored answers 'already processed' with the stored event and
\* changes nothing else: no row is written, neither queue gets a job, and no
\* Call, delivery log or dead-letter entry changes.
C14_DuplicateChangesNothing ==
  [][\A r \in ReqIds :
       (DuplicateSubmission(r) /\ req'[r] # req[r])
         => /\ UNCHANGED <<webhookEvents, callQueue, deliveryQueue,
                           workerVars>>
            /\ req'[r] = IdleReq
            /\ lastResp'.code = "ALREADY_PROCESSED"
            /\ lastResp'.rows = 0
            /\ lastResp'.enq = 0
            /\ \E row \in webhookEvents :
                 /\ row.eventId = lastResp'.eventId
                 /\ row.tenantId = req[r].tenantId
                 /\ row.idempotencyKey = req[r].idempotencyKey]_vars
\* a duplicate was answered while the first submission's jobs are queued
C14_Witness_DuplicateAnswered ==
  /\ lastResp.code = "ALREADY_PROCESSED"
  /\ Cardinality(webhookEvents) = 1
  /\ Cardinality(callQueue) = 1

\* the insert of request r is about to be refused by the uniqueness
\* constraint on (tenantId, idempotencyKey)
InsertRefused(r) ==
  /\ req[r].pc = "insert"
  /\ ~IdempotencyKeyFree(webhookEvents, req[r].tenantId,
                         req[r].idempotencyKey)

\* C15: a request whose insert is refused by the uniqueness constraint,
\* another request having stored the same key after this request's lookup,
\* ends with the 'already processed' outcome (200), not an error response.
C15_RefusedInsertAlreadyProcessed ==
  [][\A r \in ReqIds :
       (InsertRefused(r) /\ req'[r] # req[r])
         => /\ lastResp'.code = "ALREADY_PROCESSED"
            /\ lastResp'.http = 200]_vars

\* C16: an event whose row was persisted is not lost when enqueueing failed:
\* when the provider delivers the event again and the queue is available, the
\* event's processing task gets enqueued. Only the handlers enqueue that task
\* and nothing takes it from the queue here, so whenever a delivery of an
\* event has been answered with success, its processing task is in the queue.
C16_AnsweredEventEnqueued ==
  lastResp.code \in {"OK", "ALREADY_PROCESSED"}
  => \E job \in callQueue : /\ job.eventId = lastResp.eventId
                            /\ job.tenantId = lastResp.tenantId

(***************************************************************************)
(* Properties of the call state reducer.                                   *)
(***************************************************************************)
\* the last call-processing job ended without throwing
ProcessedOk == lastProcessed.action \in {"created", "updated"}
\* its event, and the call it returned as the call is now
LastEvent == CHOOSE e \in webhookEvents : e.eventId = lastProcessed.eventId
LastCall == CHOOSE c \in calls : c.id = lastProcessed.callId
\* the status the provider's status string maps to
MappedStatus(event) ==
  IF event.source = "TWILIO" THEN mapTwilioStatus(event.payload.status)
  ELSE VapiStatusMap(event.payload.status)
TerminalStatuses == {"COMPLETED", "FAILED", "NO_ANSWER", "BUSY", "CANCELLED"}

\* no field that held a value in `before` is empty in `after`
FieldsKept(before, after) ==
  /\ before.durationSeconds # NoDuration => after.durationSeconds # NoDuration
  /\ before.recordingUrl # None => after.recordingUrl # None
  /\ before.transcript # None => after.transcript # None
  /\ before.outcomeType # None => after.outcomeType # None
  /\ before.customerName # None => after.customerName # None

\* C5: after each processed event the call's status is the event's mapped
\* status, no field that held a value is cleared, and once a completed event
\* with a recording URL and a duration has been processed, a ringing event
\* leaves status RINGING with that recording URL and duration on the call.
C5_LastArrivedWinsFieldsKept ==
  ProcessedOk =>
    /\ LastCall.status = MappedStatus(LastEvent)
    /\ FieldsKept(lastProcessed.before, LastCall)
    /\ \A e \in webhookEvents :
         (/\ e.status = "COMPLETED"
          /\ e.source = LastEvent.source
          /\ e.payload.callId = LastEvent.payload.callId
          /\ MappedStatus(e) = "COMPLETED"
          /\ MappedStatus(LastEvent) = "RINGING"
          /\ e.payload.recordingUrl # None)
         => /\ LastCall.recordingUrl = e.payload.recordingUrl
            /\ LastCall.durationSeconds = e.payload.duration

\* C6, as the specification states it: an event processed for a call whose
\* status is terminal leaves the status as it was.
C6_TerminalStatusFinal ==
  (ProcessedOk /\ lastProcessed.before.status \in TerminalStatuses)
  => LastCall.status = lastProcessed.before.status

\* C6: a terminal status is not final: a Twilio event processed for a call
\* whose status is COMPLETED, FAILED, NO_ANSWER, BUSY or CANCELLED sets the
\* call's status to the event's mapped status.
C6_TwilioStatusReplacesTerminal ==
  (/\ ProcessedOk
   /\ LastEvent.source = "TWILIO"
   /\ lastProcessed.before.status \in TerminalStatuses)
  => LastCall.status = mapTwilioStatus(LastEvent.payload.status)

\* a ringing event was processed for a call that was COMPLETED
C6_Witness_CompletedThenRinging ==
  /\ ProcessedOk
  /\ LastEvent.source = "TWILIO"
  /\ lastProcessed.before.status = "COMPLETED"
  /\ LastCall.status = "RINGING"

\* the duration, recording URL and transcript an event carries are on the call
Merged(event, call) ==
  /\ TruthyNumber(event.payload.duration)
       => call.durationSeconds = event.payload.duration
  /\ event.payload.recordingUrl # None
       => call.recordingUrl = event.payload.recordingUrl
  /\ event.payload.transcript # None
       => call.transcript = event.payload.transcript

\* C7: the first event processed for a call identity returns 'created'; every
\* later one returns 'updated' with the same callId and merges its duration,
\* recording URL and transcript; there is one row per identity.
C7_CreatedOnceThenUpdated ==
  /\ \A c1, c2 \in calls :
       (/\ c1.tenantId = c2.tenantId
        /\ c1.externalCallId = c2.externalCallId
        /\ c1.provider = c2.provider) => c1 = c2
  /\ ProcessedOk =>
       IF lastProcessed.before = NoCall
       THEN lastProcessed.action = "created"
       ELSE /\ lastProcessed.action = "updated"
            /\ lastProcessed.callId = lastProcessed.before.id
            /\ Merged(LastEvent, LastCall)

\* C8: the call created by a first event has, at the end of that processing
\* step, the event's mapped status, duration and outcome, and for Vapi its
\* transcript and customer name.
C8_FirstEventApplied ==
  (ProcessedOk /\ lastProcessed.before = NoCall)
  => /\ LastCall.status = MappedStatus(LastEvent)
     /\ Merged(LastEvent, LastCall)
     /\ LastEvent.payload.outcome # None
          => LastCall.outcomeType = VapiOutcomeMap(LastEvent.payload.outcome)
     /\ LastEvent.payload.customerName # None
          => LastCall.customerName = LastEvent.payload.customerName

\* C9: when processing an event sets the status to COMPLETED, the outcome is
\* the provider's outcome when the event carries one, otherwise INFO when the
\* event's duration is > 0 and MISSED when it is 0 or absent.
C9_CompletedOutcome ==
  (/\ ProcessedOk
   /\ MappedStatus(LastEvent) = "COMPLETED"
   /\ LastCall.status = "COMPLETED")
  => LastCall.outcomeType =
       IF LastEvent.payload.outcome # None
       THEN VapiOutcomeMap(LastEvent.payload.outcome)
       ELSE IF LastEvent.payload.duration > 0 THEN "INFO" ELSE "MISSED"

(***************************************************************************)
(* Properties of outbound delivery.                                        *)
(***************************************************************************)
\* no attempt so far got a 2xx response, and nothing was replayed by hand
TargetAlwaysFailed ==
  \A i \in 1..Len(webhookLogs) : webhookLogs[i].status # "DELIVERED"
NeverReplayed == replays = 0
\* delivery jobs waiting or in progress
DeliveriesPending == BagCardinality(deliveryQueue) + Cardinality(deliveryTasks)
\* the status of the delivered event (the delivery runs have one event)
EventStatuses == {e.status : e \in webhookEvents}

\* the attempts made so far are attempts 1..k, k <= 5, one delivery at a time;
\* the event is dead-lettered exactly when attempt 5 has failed, and then no
\* attempt is waiting or in progress
C3_AttemptsUpToCeiling ==
  (TargetAlwaysFailed /\ NeverReplayed) =>
    /\ Len(webhookLogs) <= 5
    /\ \A i \in 1..Len(webhookLogs) : webhookLogs[i].attemptNumber = i
    /\ DeliveriesPending <= 1
    /\ deadLetterQueue # {}
         <=> (Len(webhookLogs) = 5 /\ webhookLogs[5].status = "FAILED")
    /\ deadLetterQueue # {} => DeliveriesPending = 0
    /\ Len(webhookLogs) < 5 /\ webhookLogs # <<>>
         /\ webhookLogs[Len(webhookLogs)].status = "FAILED"
         => DeliveriesPending = 1

\* C3: while the target fails every attempt and nothing is replayed by hand,
\* the worker makes attempts 1..5 and no other; the step that ends attempt 5
\* marks the event DEAD_LETTER, puts it on the dead-letter queue and
\* schedules no further attempt.
C3_FiveAttemptsThenDeadLetter ==
  [][/\ C3_AttemptsUpToCeiling'
     /\ (TargetAlwaysFailed' /\ NeverReplayed'
           /\ deadLetterQueue' # deadLetterQueue)
        => EventStatuses' = {"DEAD_LETTER"}]_vars

\* five attempts failed, the event is DEAD_LETTER and dead-lettered
C3_Witness_DeadLettered ==
  /\ TargetAlwaysFailed
  /\ NeverReplayed
  /\ Len(webhookLogs) = 5
  /\ deadLetterQueue # {}
  /\ EventStatuses = {"DEAD_LETTER"}
  /\ DeliveriesPending = 0

\* C4: an event marked DEAD_LETTER stays DEAD_LETTER, and every delivery job
\* enqueued while it is DEAD_LETTER is enqueued by a manual replay.
C4_DeadLetterPermanent ==
  [][EventStatuses = {"DEAD_LETTER"}
       => /\ EventStatuses' = {"DEAD_LETTER"}
          /\ \A job \in BagToSet(deliveryQueue') :
               CopiesIn(job, deliveryQueue') > CopiesIn(job, deliveryQueue)
                 => job.origin = "replay"]_vars

\* C17: when the call-processing worker has handled an event that has no
\* external call id, the event's status is FAILED.
C17_MissingCallIdFailed ==
  \A event \in webhookEvents :
    (/\ lastProcessed.eventId = event.eventId
     /\ event.payload.callId = None)
    => event.status = "FAILED"

\* this step ends attempt n of a delivery as failed
AttemptFailedNow(n) ==
  \E i \in 1..Len(webhookLogs) :
    /\ webhookLogs[i].attemptNumber = n
    /\ webhookLogs[i].status = "PENDING"
    /\ webhookLogs'[i].status = "FAILED"
\* the delivery jobs this step adds to the queue
JobsAddedNow ==
  {job \in BagToSet(deliveryQueue') :
     CopiesIn(job, deliveryQueue') > CopiesIn(job, deliveryQueue)}
\* this step schedules attempt n + 1 after the given delay
RetryScheduledNow(n, delay) ==
  \E job \in JobsAddedNow : /\ job.origin = "retry"
                            /\ job.attemptNumber = n + 1
                            /\ job.delay = delay

\* C18: for a target that always fails, the delay scheduled after failed
\* attempt n is entry n of the table 5s, 15s, 30s, 60s, 300s, and each of the
\* five entries is used: every failed attempt 1..5 schedules a retry with its
\* entry.
C18_EveryTableEntryUsed ==
  [][\A n \in 1..Len(RetryDelays) :
       (TargetAlwaysFailed' /\ NeverReplayed' /\ AttemptFailedNow(n))
         => RetryScheduledNow(n, RetryDelays[n])]_vars

\* C18 (amended): the delay scheduled after failed attempt n is entry n of the
\* table for n = 1..4 (5s, 15s, 30s, 60s), with one retry scheduled per failed
\* attempt; failed attempt 5 and later ones schedule nothing, so the fifth
\* entry, 300s, is the delay of no job.
C18_DelaysFollowTableBelowCeiling ==
  [][/\ \A n \in 1..MaxRetries + MaxReplays :
          AttemptFailedNow(n)
            => IF n < MaxRetries
               THEN /\ RetryScheduledNow(n, RetryDelays[n])
                    /\ Cardinality(JobsAddedNow) = 1
                    /\ BagCardinality(deliveryQueue') =
                         BagCardinality(deliveryQueue) + 1
               ELSE deliveryQueue' = deliveryQueue
     /\ \A job \in BagToSet(deliveryQueue') :
          job.delay # RetryDelays[Len(RetryDelays)]]_vars
\* the target failed attempts 1..4 and attempt 5 is scheduled 60s later
C18_Witness_FourthRetryScheduled ==
  /\ TargetAlwaysFailed
  /\ NeverReplayed
  /\ Len(webhookLogs) = 4
  /\ \E job \in BagToSet(deliveryQueue) :
       /\ job.origin = "retry"
       /\ job.attemptNumber = 5
       /\ job.delay = 60000

\* the log rows whose attempt is in progress
LogsInProgress(tasks) == {task.logId : task \in tasks}
PendingLogs(logs) == {i \in 1..Len(logs) : logs[i].status = "PENDING"}

\* C19: a step that starts a delivery attempt adds exactly one log row, with
\* status PENDING and the attempt's number, and changes no other row; the step
\* that ends an attempt changes exactly the row that attempt created, from
\* PENDING to DELIVERED or FAILED; no other step changes a row.  The rows are
\* the attempts started: the PENDING rows are those of the attempts in
\* progress, one row each.
C19_OneLogRowPerAttempt ==
  [][/\ Len(webhookLogs') \in {Len(webhookLogs), Len(webhookLogs) + 1}
     /\ Len(webhookLogs') = Len(webhookLogs) + 1
          => /\ SubSeq(webhookLogs', 1, Len(webhookLogs)) = webhookLogs
             /\ webhookLogs'[Len(webhookLogs')].status = "PENDING"
             /\ \E task \in deliveryTasks' \ deliveryTasks :
                  /\ deliveryTasks' = deliveryTasks \cup {task}
                  /\ task.logId = Len(webhookLogs')
                  /\ task.attemptNumber =
                       webhookLogs'[Len(webhookLogs')].attemptNumber
                  /\ task.eventId = webhookLogs'[Len(webhookLogs')].eventId
     /\ Len(webhookLogs') = Len(webhookLogs)
          => /\ deliveryTasks' \subseteq deliveryTasks
             /\ \A i \in 1..Len(webhookLogs) :
                  webhookLogs'[i] # webhookLogs[i]
                    => /\ webhookLogs[i].status = "PENDING"
                       /\ webhookLogs'[i].status \in {"DELIVERED", "FAILED"}
                       /\ webhookLogs'[i] =
                            [webhookLogs[i] EXCEPT
                               !.status = webhookLogs'[i].status]
                       /\ \E task \in deliveryTasks \ deliveryTasks' :
                            /\ task.logId = i
                            /\ deliveryTasks' = deliveryTasks \ {task}
                       /\ \A j \in 1..Len(webhookLogs) :
                            j # i => webhookLogs'[j] = webhookLogs[j]
     /\ LogsInProgress(deliveryTasks') = PendingLogs(webhookLogs')
     /\ Cardinality(deliveryTasks') = Cardinality(PendingLogs(webhookLogs'))
    ]_vars
\* two attempts for one event were in progress at once and the later one has
\* ended: its row is final and the earlier attempt's row is still PENDING
C19_Witness_LaterAttemptEndedFirst ==
  \E i, j \in 1..Len(webhookLogs) :
    /\ i < j
    /\ webhookLogs[i].status = "PENDING"
    /\ webhookLogs[j].status = "FAILED"
    /\ webhookLogs[i].eventId = webhookLogs[j].eventId

\* C20: the X-Webhook-Signature header of every outbound request is 'sha256='
\* plus the HMAC-SHA256, under the tenant's outbound secret, of the body that
\* is transmitted: the receiver's recomputation over the received body gives
\* the header.
C20_HeaderSignsTransmittedBody ==
  \A task \in deliveryTasks :
    task.request.header =
      <<"sha256=",
        GenerateWebhookSignature(
          task.request.body,
          Utf8(Tenant(task.tenantId).outboundWebhookSecret))>>

(***************************************************************************)
(* gracefulShutdown (index.ts), stopWorkers (jobs/workers.ts),             *)
(* disconnectRedis (config/redis.ts) and disconnectDatabase                *)
(* (config/index.ts).  Each signal starts a run of gracefulShutdown.       *)
(***************************************************************************)
\* the process runs: process.exit was not called
Running == shutdown.exit = None
\* a worker on which close() was not called takes jobs from its queue
TakesJobs == Running /\ shutdown.workers = "running"

\* a close that resolves without waiting for the tasks in flight
WorkersDrainedAtOnce == TRUE
\* Worker.close() of the three workers resolves when no task is in flight
WorkersDrained == deliveryTasks = {} /\ metricsTasks = EmptyBag

\* process.on(signal): gracefulShutdown starts and stopWorkers calls close()
\* on the three workers, which take no further job
Signal(s) ==
  /\ Running
  /\ shutdown.pc[s] = "idle"
  /\ shutdown' = [shutdown EXCEPT
                    !.pc[s] = "stopWorkers",
                    !.workers = IF @ = "running" THEN "closing" ELSE @]
  /\ UNCHANGED <<ingestVars, workerVars, signing, lastReplay, dailyMetrics,
                 metricsTasks, lastStatus,
                 callTasks, lock>>

\* await stopWorkers() returns
WorkersStopped(s) ==
  /\ Running
  /\ shutdown.pc[s] = "stopWorkers"
  /\ WorkersDrained
  /\ shutdown' = [shutdown EXCEPT !.pc[s] = "disconnectRedis",
                                  !.workers = "closed"]
  /\ UNCHANGED <<ingestVars, workerVars, signing, lastReplay, dailyMetrics,
                 metricsTasks, lastStatus,
                 callTasks, lock>>

\* await disconnectRedis(): redisConnection.quit().  On a connection that
\* another run has already closed, quit resolves or rejects; a rejection is
\* caught and the process exits with code 1.
RedisDisconnected(s) ==
  /\ Running
  /\ shutdown.pc[s] = "disconnectRedis"
  /\ \E rejected \in IF shutdown.redis = "open" THEN {FALSE} ELSE BOOLEAN :
       shutdown' = IF rejected
                   THEN [shutdown EXCEPT !.pc[s] = "exited", !.exit = "1"]
                   ELSE [shutdown EXCEPT !.pc[s] = "disconnectDatabase",
                                         !.redis = "closed"]
  /\ UNCHANGED <<ingestVars, workerVars, signing, lastReplay, dailyMetrics,
                 metricsTasks, lastStatus,
                 callTasks, lock>>

\* await disconnectDatabase() returns; process.exit(0)
DatabaseDisconnected(s) ==
  /\ Running
  /\ shutdown.pc[s] = "disconnectDatabase"
  /\ shutdown' = [shutdown EXCEPT !.pc[s] = "exited", !.db = "closed",
                                  !.exit = "0"]
  /\ UNCHANGED <<ingestVars, workerVars, signing, lastReplay, dailyMetrics,
                 metricsTasks, lastStatus,
                 callTasks, lock>>

\* The workers of a process that receives signals: one stored event with its
\* processing job and its first delivery job.
ShutdownNext ==
  \/ TakesJobs /\ \E job \in BagToSet(deliveryQueue) : DeliveryStart(job)
  \/ Running /\ \E task \in deliveryTasks : DeliveryFinish(task)
  \/ TakesJobs /\ \E job \in callQueue : ProcessCallJob(job)
  \/ TakesJobs /\ \E job \in BagToSet(metricsQueue) : MetricsRead(job)
  \/ Running /\ \E task \in BagToSet(metricsTasks) : MetricsUpsert(task)
  \/ \E s \in Signals : Signal(s)
  \/ \E s \in Signals : WorkersStopped(s)
  \/ \E s \in Signals : RedisDisconnected(s)
  \/ \E s \in Signals : DatabaseDisconnected(s)

SpecShutdown == DeliveryInit /\ [][ShutdownNext]_vars

(***************************************************************************)
(* acquireLock (config/redis.ts): SET key token EX ttl NX, and a release   *)
(* that reads the key and then deletes it.                                 *)
(***************************************************************************)
\* calls of acquireLock per caller
MaxAcquires == 2

\* acquireLock: SET NX stores the token when the key is absent; otherwise
\* the caller gets null
Acquire(c) ==
  /\ lock.caller[c].pc \in {"idle", "released"}
  /\ lock.caller[c].n < MaxAcquires
  /\ LET token == [owner |-> c, n |-> lock.caller[c].n + 1]
     IN lock' = IF lock.value = NoToken
                THEN [value |-> token,
                      caller |-> [lock.caller EXCEPT
                                    ![c] = [pc |-> "held", token |-> token,
                                            n |-> token.n,
                                            expired |-> FALSE]]]
                ELSE [lock EXCEPT !.caller[c].n = token.n]
  /\ UNCHANGED <<ingestVars, workerVars, signing, lastReplay, dailyMetrics,
                 metricsTasks, shutdown, lastStatus, callTasks>>

\* the TTL of the stored key ends: Redis removes it
ExpireLock ==
  /\ lock.value # NoToken
  /\ lock' = [value |-> NoToken,
              caller |-> [lock.caller EXCEPT
                            ![lock.value.owner].expired = TRUE]]
  /\ UNCHANGED <<ingestVars, workerVars, signing, lastReplay, dailyMetrics,
                 metricsTasks, shutdown, lastStatus, callTasks>>

\* release(): const current = await redisConnection.get(lockKey);
\* if (current === token) ...
ReleaseGet(c) ==
  /\ lock.caller[c].pc = "held"
  /\ lock' = [lock EXCEPT
                !.caller[c].pc = IF lock.value = lock.caller[c].token
                                 THEN "deleting" ELSE "released"]
  /\ UNCHANGED <<ingestVars, workerVars, signing, lastReplay, dailyMetrics,
                 metricsTasks, shutdown, lastStatus, callTasks>>

\* release(): await redisConnection.del(lockKey): the key is deleted whatever
\* token it holds by now
ReleaseDel(c) ==
  /\ lock.caller[c].pc = "deleting"
  /\ lock' = [value |-> NoToken,
              caller |-> [lock.caller EXCEPT ![c].pc = "released"]]
  /\ UNCHANGED <<ingestVars, workerVars, signing, lastReplay, dailyMetrics,
                 metricsTasks, shutdown, lastStatus, callTasks>>

LockNext ==
  \/ \E c \in Callers : Acquire(c)
  \/ ExpireLock
  \/ \E c \in Callers : ReleaseGet(c)
  \/ \E c \in Callers : ReleaseDel(c)

SpecLock == Init /\ [][LockNext]_vars

SameHmacKey(s1, s2) ==
  /\ Len(s1) <= HmacBlockBytes
  /\ Len(s2) <= HmacBlockBytes
  /\ \A i \in 1..HmacBlockBytes :
       (IF i <= Len(s1) THEN s1[i] ELSE 0) = (IF i <= Len(s2) THEN s2[i] ELSE 0)

ReplayedNow == replays' = replays + 1
\* the log the last replay request named exists and belongs to the caller's
\* tenant (the logs are never deleted)
ReplayedOwnLog ==
  /\ lastReplay.logId \in 1..Len(webhookLogs)
  /\ webhookLogs[lastReplay.logId].tenantId = lastReplay.tenantId

\* C22: a manual replay of an existing log of the caller's tenant enqueues
\* exactly one delivery job, for the log's event and with the log's attempt
\* number plus one, whatever the status of the event, succeeds, and changes
\* no row of the events, the logs or the calls.
C22_ReplayEnqueuesNextAttempt ==
  [][(ReplayedNow /\ ReplayedOwnLog')
       => LET log == webhookLogs[lastReplay'.logId]
          IN /\ lastReplay'.code = "OK"
             /\ BagCardinality(deliveryQueue') =
                  BagCardinality(deliveryQueue) + 1
             /\ \E job \in JobsAddedNow :
                  /\ JobsAddedNow = {job}
                  /\ job.eventId = log.eventId
                  /\ job.tenantId = log.tenantId
                  /\ job.attemptNumber = log.attemptNumber + 1
                  /\ job.origin = "replay"
             /\ UNCHANGED <<webhookEvents, webhookLogs, calls,
                            deliveryTasks, deadLetterQueue>>]_vars
\* the log of the fifth attempt of a dead-lettered event was replayed:
\* attempt 6 is queued and the event is still DEAD_LETTER
C22_Witness_DeadLetterReplayed ==
  /\ lastReplay.code = "OK"
  /\ lastReplay.attemptNumber = 6
  /\ EventStatuses = {"DEAD_LETTER"}
  /\ \E job \in BagToSet(deliveryQueue) :
       job.attemptNumber = 6 /\ job.origin = "replay"

\* C23: a manual replay of a log id that does not exist or belongs to another
\* tenant is answered with the NotFound error (404 NOT_FOUND).
C23_MissingLogNotFound ==
  (lastReplay.tenantId # None /\ ~ReplayedOwnLog)
  => /\ lastReplay.code = "NOT_FOUND"
     /\ lastReplay.http = 404

\* C24: at most one delivery attempt of an event is in progress.
C24_OneAttemptInFlight ==
  \A task1, task2 \in deliveryTasks :
    task1.eventId = task2.eventId => task1 = task2

(***************************************************************************)
(* Properties of the daily metrics.                                        *)
(***************************************************************************)
\* no call job, no metrics job and no aggregation is waiting or running
MetricsQuiescent ==
  callQueue = {} /\ metricsQueue = EmptyBag /\ metricsTasks = EmptyBag

\* C25: when every call update and every recomputation it triggered has
\* finished, each stored DailyMetrics row equals the rollup of the final Call
\* table, whatever the interleaving of the reads and the upserts.
C25_FinalRowIsRollupOfFinalCalls ==
  MetricsQuiescent =>
    \A m \in dailyMetrics : m = DailyRollup(calls, m.tenantId, m.date)

\* the aggregations that store their values in this step
UpsertedNow ==
  {task \in BagToSet(metricsTasks) :
     CopiesIn(task, metricsTasks') < CopiesIn(task, metricsTasks)}
OneRowPerTenantAndDate ==
  \A m1, m2 \in dailyMetrics :
    (m1.tenantId = m2.tenantId /\ m1.date = m2.date) => m1 = m2

\* C26: an aggregation stores exactly the values it computed as the one row
\* of its (tenantId, date), replacing the counters of the stored row, so a
\* run whose values are already stored changes nothing.
C26_RecomputationReplacesCounters ==
  [][/\ OneRowPerTenantAndDate'
     /\ \A task \in UpsertedNow :
          /\ task \in dailyMetrics'
          /\ task \in dailyMetrics => dailyMetrics' = dailyMetrics]_vars

\* a second run over an unchanged Call table is about to store its values
\* over those of the first
C26_Witness_SecondRunSameCalls ==
  \E task \in BagToSet(metricsTasks) :
    /\ task \in dailyMetrics
    /\ task.totalCalls > 0
    /\ task = DailyRollup(calls, task.tenantId, task.date)

\* the aggregations that read the Call table in this step
ReadNow ==
  {task \in BagToSet(metricsTasks') :
     CopiesIn(task, metricsTasks') > CopiesIn(task, metricsTasks)}
\* a is total / n rounded to the nearest integer, halves up
IsRounded(a, total, n) ==
  2 * a * n <= 2 * total + n /\ 2 * total + n < 2 * a * n + 2 * n

\* C27: the values an aggregation computes are the number of the tenant's
\* calls of the day, the numbers of those with outcome BOOKED and MISSED, the
\* sum of their durations and that sum divided by the number of calls,
\* rounded (0 when there is no call).
C27_RollupCountsAndAverages ==
  [][\A task \in ReadNow :
       LET day == CallsOfDay(calls, task.tenantId, task.date)
       IN /\ task.totalCalls = Cardinality(day)
          /\ task.bookedCalls
               = Cardinality({c \in day : c.outcomeType = "BOOKED"})
          /\ task.missedCalls
               = Cardinality({c \in day : c.outcomeType = "MISSED"})
          /\ task.totalDurationSeconds = SumDurationSeconds(day)
          /\ IF day = {} THEN task.avgDurationSeconds = 0
             ELSE IsRounded(task.avgDurationSeconds,
                            task.totalDurationSeconds,
                            Cardinality(day))]_vars

\* a BOOKED call of 120 s and a MISSED call without duration give 2, 1, 1, 60
C27_Witness_BookedAndMissed ==
  \E task \in BagToSet(metricsTasks) :
    /\ {<<c.outcomeType, c.durationSeconds>> :
          c \in CallsOfDay(calls, task.tenantId, task.date)}
         = {<<"BOOKED", 120>>, <<"MISSED", NoDuration>>}
    /\ task.totalCalls = 2
    /\ task.bookedCalls = 1
    /\ task.missedCalls = 1
    /\ task.avgDurationSeconds = 60

(***************************************************************************)
(* Properties of the graceful shutdown.                                    *)
(***************************************************************************)
\* a worker task stores a row or adds or takes a job in this step
WorkerActsNow ==
  <<ingestVars, workerVars, dailyMetrics, metricsTasks>>'
    # <<ingestVars, workerVars, dailyMetrics, metricsTasks>>

\* C28: after a signal the Redis connection is closed only when the three
\* workers are closed, the database connection only when the Redis
\* connection is closed, and no worker task stores a row or touches a queue
\* once one of the two connections is closed.
C28_WorkersThenRedisThenDatabase ==
  [][/\ shutdown'.redis = "closed" => shutdown'.workers = "closed"
     /\ shutdown'.db = "closed" => shutdown'.redis = "closed"
     /\ WorkerActsNow => shutdown.redis = "open" /\ shutdown.db = "open"]_vars

\* a signal arrived while a delivery was in flight: the run of
\* gracefulShutdown waits in stopWorkers
C28_Witness_ShutdownAwaitsDelivery ==
  /\ \E s \in Signals : shutdown.pc[s] = "stopWorkers"
  /\ shutdown.workers = "closing"
  /\ deliveryTasks # {}

(***************************************************************************)
(* Properties of tenant isolation.                                         *)
(***************************************************************************)
\* C29: a response returns events and delivery logs only of the tenant of
\* the URL path or of the authenticated session, never of a tenant named by
\* a header of the request; a replay acts only on a log of the caller's
\* tenant.
C29_RowsOfResolvedTenantOnly ==
  /\ \A e \in lastStatus.recentEvents :
       e.tenantId = StatusResolvedTenant(lastStatus.header)
  /\ lastStatus.deliveryStats # {} =>
       StatusResolvedTenant(lastStatus.header) # None
  /\ lastReplay.code = "OK" => lastReplay.eventTenantId = lastReplay.tenantId

(***************************************************************************)
(* Properties of the idempotency key.                                      *)
(***************************************************************************)
\* two requests being handled carry the same body of the same provider
SameBody(r1, r2) ==
  /\ req[r1].pc # "idle"
  /\ req[r2].pc # "idle"
  /\ req[r1].provider = req[r2].provider
  /\ req[r1].payload = req[r2].payload
  /\ req[r1].eventId.id = req[r2].eventId.id
  /\ req[r1].eventId.type = req[r2].eventId.type

\* C30: the idempotency key is made of the provider's identifiers only: two
\* receipts of the same body have the same key whenever they are received,
\* and different eventIds when they are received at different milliseconds.
C30_KeyIndependentOfReceiptTime ==
  \A r1, r2 \in ReqIds :
    SameBody(r1, r2) =>
      /\ req[r1].idempotencyKey = req[r2].idempotencyKey
      /\ req[r1].eventId.ts # req[r2].eventId.ts =>
           req[r1].eventId # req[r2].eventId

\* the same body is being handled twice, received at different milliseconds
C30_Witness_SameBodyLater ==
  \E r1, r2 \in ReqIds :
    /\ SameBody(r1, r2)
    /\ req[r1].eventId.ts # req[r2].eventId.ts
    /\ req[r1].idempotencyKey = req[r2].idempotencyKey
    /\ req[r1].idempotencyKey # NoKey

(***************************************************************************)
(* Properties of the metrics trigger.                                      *)
(***************************************************************************)
\* the Call rows the call-processing worker creates or changes in this step
CallsWrittenNow == calls' \ calls

\* C31: when the call-processing worker creates or changes a Call, it
\* enqueues a metrics job for the Call's tenant and the day of the Call's
\* startedAt.
C31_JobForDayOfChangedCall ==
  [][\A c \in CallsWrittenNow :
       LET job == [tenantId |-> c.tenantId, date |-> Today(c.startedAt)]
       IN CopiesIn(job, metricsQueue') > CopiesIn(job, metricsQueue)]_vars

(***************************************************************************)
(* Properties of the inbound signature verifiers.                          *)
(***************************************************************************)
\* the last request carried a signature whose decoded length is not that of
\* the expected digest, and reached the verifier
WrongLengthSignatureChecked ==
  /\ isProduction
  /\ lastResp.tenantId # None
  /\ lastResp.code \notin {"TENANT_INACTIVE", "INVALID_TOKEN"}
  /\ SecretOfLastResp # None
  /\ lastResp.signature # NoSig
  /\ lastResp.signature.len #
       IF lastResp.provider = "TWILIO" THEN Sha1Bytes ELSE Sha256Bytes

\* C32: a signature whose decoded length differs from the digest's makes the
\* verifier return false, and the request is answered 401 INVALID_SIGNATURE.
C32_WrongLengthIsInvalidSignature ==
  WrongLengthSignatureChecked =>
    lastResp.code = "INVALID_SIGNATURE" /\ lastResp.http = 401

(***************************************************************************)
(* Properties of a successful delivery.                                    *)
(***************************************************************************)
\* this step ends an attempt for the event with a 2xx response
AttemptDeliveredNow(eventId) ==
  \E i \in 1..Len(webhookLogs) :
    /\ webhookLogs[i].eventId = eventId
    /\ webhookLogs[i].status = "PENDING"
    /\ webhookLogs'[i].status = "DELIVERED"
\* this step starts a delivery attempt
AttemptStartedNow == Len(webhookLogs') = Len(webhookLogs) + 1

\* C33: the step that ends an attempt with a 2xx response leaves the event
\* COMPLETED and adds no delivery job; while nothing was replayed by hand, no
\* attempt starts for an event that has a DELIVERED attempt.
C33_NoAttemptAfterDelivered ==
  [][/\ \A e \in webhookEvents :
          AttemptDeliveredNow(e.eventId)
            => /\ \E e2 \in webhookEvents' : /\ e2.eventId = e.eventId
                                             /\ e2.status = "COMPLETED"
               /\ JobsAddedNow = {}
     /\ (replays' = 0 /\ AttemptStartedNow)
          => \A i \in 1..Len(webhookLogs) :
               webhookLogs[i].eventId = webhookLogs'[Len(webhookLogs')].eventId
                 => webhookLogs[i].status # "DELIVERED"]_vars

\* a retry was delivered: the event is COMPLETED and no delivery is waiting
\* or in progress
C33_Witness_RetryDelivered ==
  /\ replays = 0
  /\ Len(webhookLogs) >= 2
  /\ webhookLogs[Len(webhookLogs)].status = "DELIVERED"
  /\ EventStatuses = {"COMPLETED"}
  /\ DeliveriesPending = 0

(***************************************************************************)
(* Properties of the event status under both workers.                      *)
(***************************************************************************)
\* an attempt for the event got a 2xx response
HasDeliveredLog(logs, eventId) ==
  \E i \in 1..Len(logs) :
    logs[i].eventId = eventId /\ logs[i].status = "DELIVERED"

\* C34: for a tenant with an outbound endpoint, an event with status
\* COMPLETED has a DELIVERED log row, and a status RETRYING or DEAD_LETTER
\* becomes COMPLETED only in a step that ends an attempt with a 2xx response.
C34_CompletedOnlyWhenDelivered ==
  [][\A e1 \in webhookEvents, e2 \in webhookEvents' :
       (/\ e1.eventId = e2.eventId
        /\ Tenant(e2.tenantId).outboundWebhookUrl # None
        /\ e2.status = "COMPLETED")
         => /\ HasDeliveredLog(webhookLogs', e2.eventId)
            /\ e1.status \in {"RETRYING", "DEAD_LETTER"}
                 => AttemptDeliveredNow(e2.eventId)]_vars

(***************************************************************************)
(* Properties of duplicate detection.                                      *)
(***************************************************************************)
\* this step answers request r as a duplicate of a stored event
AnsweredDuplicateNow(r) ==
  /\ req[r].pc = "lookup"
  /\ req'[r].pc = "idle"
  /\ lastResp'.code = "ALREADY_PROCESSED"

\* C35: an event is answered as a duplicate only of a stored event that
\* reports the same call status; an event with another status of the same
\* call is stored and processed.
C35_OtherStatusIsNoDuplicate ==
  [][\A r \in ReqIds :
       AnsweredDuplicateNow(r)
         => \A row \in webhookEvents :
              (row.tenantId = req[r].tenantId
                 /\ row.eventId = lastResp'.eventId)
                => row.payload.status = req[r].payload.status]_vars

(***************************************************************************)
(* Properties of the reducer without the Redis idempotency record.         *)
(***************************************************************************)
\* C36: a job for an event whose call identity already had a Call row ends
\* without throwing, on that row, and marks the event COMPLETED, whether the
\* Redis idempotency record of the call is still present or not.
C36_LaterEventCompletesWithoutRecord ==
  (lastProcessed.eventId # NoEventId /\ lastProcessed.before # NoCall)
    => /\ ProcessedOk
       /\ lastProcessed.callId = lastProcessed.before.id
       /\ LastEvent.status = "COMPLETED"

(***************************************************************************)
(* Properties of concurrent call-processing tasks.                         *)
(***************************************************************************)
\* the task ends in this step as a failed job: its event stays PENDING
TaskFailedNow(task) ==
  /\ task \in callTasks
  /\ task \notin callTasks'
  /\ \E e \in webhookEvents' : e.eventId = task.eventId /\ e.status = "PENDING"

\* C37: a task for an event with a call id that found no Call row of the
\* event's identity when it started does not fail, even when another task
\* for the same identity runs at the same time; the identity has one row.
C37_ConcurrentTasksBothSucceed ==
  [][/\ \A task \in callTasks :
          (/\ task.existingCall = NoCall
           /\ ~task.identityExisted
           /\ \E e \in webhookEvents : /\ e.eventId = task.eventId
                                        /\ e.payload.callId # None)
            => ~TaskFailedNow(task)
     /\ \A c1, c2 \in calls' :
          (/\ c1.tenantId = c2.tenantId
           /\ c1.externalCallId = c2.externalCallId
           /\ c1.provider = c2.provider) => c1 = c2]_vars

(***************************************************************************)
(* Properties of delivery under at-least-once hand-over.                   *)
(***************************************************************************)
\* C38: an event that is never replayed by hand gets at most 5 delivery
\* attempts and at most one log row per attempt number, also when the queue
\* hands a delivery job to a worker more than once.
C38_FiveAttemptsWhenHandedTwice ==
  NeverReplayed =>
    \A e \in webhookEvents :
      LET rows == {i \in 1..Len(webhookLogs) :
                     webhookLogs[i].eventId = e.eventId}
      IN /\ Cardinality(rows) <= MaxRetries
         /\ \A i, j \in rows :
              webhookLogs[i].attemptNumber = webhookLogs[j].attemptNumber
                => i = j

(***************************************************************************)
(* Properties of the Redis lock.                                           *)
(***************************************************************************)
\* the callers holding a lock they got from acquireLock that they have not
\* released and whose TTL has not ended
Holders ==
  {c \in Callers : /\ lock.caller[c].pc \in {"held", "deleting"}
                   /\ ~lock.caller[c].expired}

\* C39: at most one caller holds the lock, and the delete of a release
\* removes only the releasing caller's own token.
C39_OneHolderAndOwnDelete ==
  [][/\ Cardinality(Holders') <= 1
     /\ \A c \in Callers :
          (lock.caller[c].pc = "deleting" /\ lock'.caller[c].pc = "released"
             /\ lock.value # NoToken)
            => lock.value = lock.caller[c].token]_vars

====
